---- MODULE Spec2Model ----
(***************************************************************************)
(* Flow-graph transformation engine (flowHelper) of activepieces.          *)
(*                                                                         *)
(* A flow version is a tree of steps rooted at a trigger.  Every step has  *)
(* a linear successor (nextAction) and, by kind, structural child slots.   *)
(* flowHelper.apply(flowVersion, operation) returns a new flow version.    *)
(*                                                                         *)
(* Representation.  An optional step (undefined / null in the source) is a *)
(* sequence of length 0 or 1.  A step is a record with the union of the    *)
(* fields of all step kinds; a slot a kind does not have is empty.  Router *)
(* branch indices are 0-based as in the source; TLA+ sequences are 1-based *)
(* so children[i] of the source is children[i + 1] here.  An array hole    *)
(* left by an assignment past the end of children is modelled as null,     *)
(* which is what the JSON clone of the next transferFlow turns it into.    *)
(***************************************************************************)
EXTENDS Integers, Sequences, FiniteSets, TLC

VARIABLES flow, prev, op, err, callerFlow, nops, frames, started, arg, ret

vars == <<flow, prev, op, err, callerFlow, nops, frames, started, arg, ret>>

(***************************************************************************)
(* Bounds of the model.                                                    *)
(***************************************************************************)
\* number of apply calls made on one flow version
MaxOps == 1
\* largest branch index a request carries
MaxBranchIndex == 2

(***************************************************************************)
(* Enumerations.                                                           *)
(***************************************************************************)
Nil == <<>>
Some(x) == <<x>>

PIECE == "PIECE"
CODE == "CODE"
BRANCH == "BRANCH"
LOOP_ON_ITEMS == "LOOP_ON_ITEMS"
ROUTER == "ROUTER"
TRIGGER_PIECE == "PIECE_TRIGGER"
TRIGGER_EMPTY == "EMPTY"
\* the type of the object createAction returns when request.type is no action type
NO_TYPE == "undefined"
NO_NAME == "undefined"

ActionType == {PIECE, CODE, BRANCH, LOOP_ON_ITEMS, ROUTER}
TriggerType == {TRIGGER_PIECE, TRIGGER_EMPTY}

AFTER == "AFTER"
INSIDE_LOOP == "INSIDE_LOOP"
INSIDE_TRUE_BRANCH == "INSIDE_TRUE_BRANCH"
INSIDE_FALSE_BRANCH == "INSIDE_FALSE_BRANCH"
INSIDE_BRANCH == "INSIDE_BRANCH"
\* stepLocationRelativeToParent left out of a request
NO_LOCATION == ""
StepLocationRelativeToParent ==
    {AFTER, INSIDE_LOOP, INSIDE_TRUE_BRANCH, INSIDE_FALSE_BRANCH, INSIDE_BRANCH}

\* branchIndex left out of a request (isNil)
NoIndex == -1

DRAFT == "DRAFT"
LOCKED == "LOCKED"

MOVE_ACTION == "MOVE_ACTION"
LOCK_FLOW == "LOCK_FLOW"
CHANGE_NAME == "CHANGE_NAME"
DELETE_ACTION == "DELETE_ACTION"
ADD_ACTION == "ADD_ACTION"
UPDATE_ACTION == "UPDATE_ACTION"
UPDATE_TRIGGER == "UPDATE_TRIGGER"
DUPLICATE_ACTION == "DUPLICATE_ACTION"
DELETE_BRANCH == "DELETE_BRANCH"
ADD_BRANCH == "ADD_BRANCH"
DUPLICATE_BRANCH == "DUPLICATE_BRANCH"
\* no apply call made yet
NO_OP == "NONE"

NO_ERROR == "none"
FLOW_OPERATION_INVALID == "FLOW_OPERATION_INVALID"
\* JSON.parse(JSON.stringify(undefined)) in duplicateStep
SYNTAX_ERROR == "SyntaxError"
\* property access on undefined
TYPE_ERROR == "TypeError"
\* unbounded recursion of transferStep
RANGE_ERROR == "RangeError"

\* a test that takes a trigger for an action
isActionOrTrigger(type) == type \in ActionType \cup TriggerType

isAction(type) == type \in ActionType
isTrigger(type) == type \in TriggerType

(***************************************************************************)
(* Piece versions.  A version string is a sequence of range operators      *)
(* ("^", "~"; at most one in a well-formed version) followed by            *)
(* major.minor.patch.                                                      *)
(***************************************************************************)
Version(range, major, minor, patch) ==
    [range |-> range, major |-> major, minor |-> minor, patch |-> patch]

\* pieceVersion.startsWith(prefix) for a one-character prefix
startsWith(pieceVersion, prefix) ==
    pieceVersion.range # <<>> /\ Head(pieceVersion.range) = prefix

\* `${prefix}${pieceVersion}`
prepend(prefix, pieceVersion) ==
    [pieceVersion EXCEPT !.range = <<prefix>> \o @]

\* pieceVersion.substring(1) of a version that starts with a range operator
substring1(pieceVersion) == [pieceVersion EXCEPT !.range = Tail(@)]

\* semver.valid: a plain major.minor.patch
semverValid(pieceVersion) == pieceVersion.range = <<>>

\* semver.lt(a, b) on the numeric triples
semverLt(a, b) ==
    \/ a.major < b.major
    \/ a.major = b.major /\ a.minor < b.minor
    \/ a.major = b.major /\ a.minor = b.minor /\ a.patch < b.patch

GOOGLE_SHEETS == "@activepieces/piece-google-sheets"
GMAIL == "@activepieces/piece-gmail"
SLACK == "@activepieces/piece-slack"

isLegacyApp(pieceName, pieceVersion) ==
    LET newVersion == IF startsWith(pieceVersion, "^") \/ startsWith(pieceVersion, "~")
                      THEN substring1(pieceVersion)
                      ELSE pieceVersion
    IN  \/ pieceName = GOOGLE_SHEETS /\ semverLt(newVersion, Version(<<>>, 0, 3, 0))
        \/ pieceName = GMAIL /\ semverLt(newVersion, Version(<<>>, 0, 3, 0))

(***************************************************************************)
(* Steps and flow versions.                                                *)
(***************************************************************************)
UNDEFINED == "undefined"

DEFAULT_SAMPLE_DATA_SETTINGS ==
    [currentSelectedData |-> UNDEFINED,
     sampleDataFileId |-> UNDEFINED,
     lastTestDate |-> UNDEFINED]

\* A template token of an input string: text inside a {{...}} span naming a
\* step (tpl = TRUE) or plain text outside any span (tpl = FALSE).
Ref(id) == [tpl |-> TRUE, id |-> id]
Txt(id) == [tpl |-> FALSE, id |-> id]

Settings(pieceName, pieceVersion, auth, text, inputUiInfo, branches, schemaOk) ==
    [pieceName |-> pieceName,
     pieceVersion |-> pieceVersion,
     input |-> [auth |-> auth, text |-> text],
     inputUiInfo |-> inputUiInfo,
     branches |-> branches,
     schemaOk |-> schemaOk]

NoVersion == Version(<<>>, 0, 0, 0)

PlainSettings == Settings("", NoVersion, Nil, <<>>, DEFAULT_SAMPLE_DATA_SETTINGS, <<>>, TRUE)

Step(name, type, valid, displayName, settings) ==
    [name |-> name, type |-> type, valid |-> valid, displayName |-> displayName,
     settings |-> settings,
     nextAction |-> Nil, onSuccessAction |-> Nil, onFailureAction |-> Nil,
     firstLoopAction |-> Nil, children |-> <<>>]

FlowVersion(displayName, state, trigger, valid) ==
    [displayName |-> displayName, state |-> state, trigger |-> trigger, valid |-> valid]

Max(a, b) == IF a >= b THEN a ELSE b
Min(a, b) == IF a <= b THEN a ELSE b

\* Array.prototype.flat over a sequence of sequences
RECURSIVE flat(_)
flat(seqs) == IF seqs = <<>> THEN <<>> ELSE Head(seqs) \o flat(Tail(seqs))

\* array[index] = value, which lengthens the array when index is past its end
setAt(array, index, value) ==
    [i \in 1..Max(Len(array), index + 1) |->
        IF i = index + 1 THEN value
        ELSE IF i <= Len(array) THEN array[i] ELSE Nil]

\* array[index], undefined when index is out of range
getAt(array, index) ==
    IF index >= 0 /\ index < Len(array) THEN array[index + 1] ELSE Nil

\* Array.prototype.splice(start, deleteCount, ...items): the start the call uses
spliceStart(array, start) ==
    IF start < 0 THEN Max(Len(array) + start, 0) ELSE Min(start, Len(array))

\* array.splice(start, 0, item)
spliceInsert(array, start, item) ==
    LET s == spliceStart(array, start)
    IN  SubSeq(array, 1, s) \o <<item>> \o SubSeq(array, s + 1, Len(array))

\* array.splice(start, 1)
spliceDelete(array, start) ==
    LET s == spliceStart(array, start)
    IN  SubSeq(array, 1, s) \o SubSeq(array, s + 2, Len(array))

(***************************************************************************)
(* Traversal.                                                              *)
(***************************************************************************)
RECURSIVE traverseInternal(_)
traverseInternal(step) ==
    IF step = Nil THEN <<>>
    ELSE LET s == step[1]
         IN  <<s>>
             \o (IF s.type = BRANCH
                 THEN traverseInternal(s.onSuccessAction) \o traverseInternal(s.onFailureAction)
                 ELSE <<>>)
             \o (IF s.type = ROUTER
                 THEN flat([i \in DOMAIN s.children |-> traverseInternal(s.children[i])])
                 ELSE <<>>)
             \o (IF s.type = LOOP_ON_ITEMS
                 THEN traverseInternal(s.firstLoopAction)
                 ELSE <<>>)
             \o traverseInternal(s.nextAction)

\* a listing that follows next before the structural children
getAllStepsNextFirst(trigger) ==
    <<trigger>> \o traverseInternal(trigger.nextAction)
        \o Tail(traverseInternal(Some([trigger EXCEPT !.nextAction = Nil])))

getAllSteps(trigger) == traverseInternal(Some(trigger))

Range(seq) == {seq[i] : i \in DOMAIN seq}

\* Array.prototype.find: the first element satisfying the test, as an optional
findByName(steps, stepName) ==
    LET hits == {i \in DOMAIN steps : steps[i].name = stepName}
    IN  IF hits = {} THEN Nil
        ELSE Some(steps[CHOOSE i \in hits : \A j \in hits : i <= j])

getStep(flowVersion, stepName) == findByName(getAllSteps(flowVersion.trigger), stepName)

stepNames(flowVersion) ==
    LET steps == getAllSteps(flowVersion.trigger)
    IN  [i \in DOMAIN steps |-> steps[i].name]

\* isValid that looks at the trigger alone
isValidOfTrigger(flowVersion) == flowVersion.trigger.valid

isValid(flowVersion) ==
    \A step \in Range(getAllSteps(flowVersion.trigger)) : step.valid

(***************************************************************************)
(* Schema validation.  actionSchemaValidator.Check and                     *)
(* triggerSchemaValidation.Check are compiled from schemas outside the     *)
(* engine; whether a step's settings conform is carried by the abstract    *)
(* attribute settings.schemaOk.                                            *)
(***************************************************************************)
schemaCheck(step) == step.settings.schemaOk

(***************************************************************************)
(* createAction / createTrigger.  A request is a record of the same form   *)
(* as a step; request.valid = TRUE also stands for a request without a     *)
(* valid field (isNil(request.valid) ? true : request.valid).              *)
(***************************************************************************)
NoActions ==
    [nextAction |-> Nil, onSuccessAction |-> Nil, onFailureAction |-> Nil,
     firstLoopAction |-> Nil, children |-> Nil]

\* an argument that leaves out the step that was in the slot
ChildrenOnly(nextAction, children) == [NoActions EXCEPT !.children = children]

\* the { nextAction, children } argument addAction passes to createAction
NextAndChildren(nextAction, children) ==
    [NoActions EXCEPT !.nextAction = nextAction, !.children = children]

\* children ?? []
createActionChildrenNone(children) ==
    IF children = Nil THEN <<>> ELSE children[1]

\* children ?? [null, null]
createActionChildren(children) ==
    IF children = Nil THEN <<Nil, Nil>> ELSE children[1]

createAction(request, actions) ==
    LET base == [Step(request.name, request.type, FALSE, request.displayName,
                      request.settings)
                 EXCEPT !.nextAction = actions.nextAction]
        action ==
            CASE request.type = BRANCH ->
                    [base EXCEPT !.onFailureAction = actions.onFailureAction,
                                 !.onSuccessAction = actions.onSuccessAction]
              [] request.type = ROUTER ->
                    [base EXCEPT !.children = createActionChildren(actions.children)]
              [] request.type = LOOP_ON_ITEMS ->
                    [base EXCEPT !.firstLoopAction = actions.firstLoopAction]
              [] request.type = PIECE -> base
              [] request.type = CODE -> base
    IN  IF request.type \in {BRANCH, ROUTER, LOOP_ON_ITEMS, PIECE, CODE}
        THEN [action EXCEPT !.valid = request.valid /\ schemaCheck(action)]
        ELSE \* no case of the switch matched: { ...undefined, valid: false }
             Step(NO_NAME, NO_TYPE, FALSE, UNDEFINED, PlainSettings)

createTrigger(name, request, nextAction) ==
    LET base == [Step(name, request.type, FALSE, request.displayName, request.settings)
                 EXCEPT !.nextAction = nextAction]
    IN  IF request.type \in {TRIGGER_EMPTY, TRIGGER_PIECE}
        THEN [base EXCEPT !.valid = request.valid /\ schemaCheck(base)]
        ELSE Step(NO_NAME, NO_TYPE, FALSE, UNDEFINED, PlainSettings)

extractActions(step) ==
    [nextAction |-> step.nextAction,
     onSuccessAction |-> IF step.type = BRANCH THEN step.onSuccessAction ELSE Nil,
     onFailureAction |-> IF step.type = BRANCH THEN step.onFailureAction ELSE Nil,
     firstLoopAction |-> IF step.type = LOOP_ON_ITEMS THEN step.firstLoopAction ELSE Nil,
     children |-> IF step.type = ROUTER THEN Some(step.children) ELSE Nil]

(***************************************************************************)
(* upgradePiece.                                                           *)
(***************************************************************************)
\* upgradePiece without the test for a version that already has a range operator
upgradePieceAgain(step, stepName) ==
    IF step.name # stepName THEN step
    ELSE IF step.type \in {PIECE, TRIGGER_PIECE}
    THEN LET pieceVersion == step.settings.pieceVersion
         IN  IF isLegacyApp(step.settings.pieceName, pieceVersion) THEN step
             ELSE IF semverValid(pieceVersion)
                     /\ semverLt(pieceVersion, Version(<<>>, 1, 0, 0))
             THEN [step EXCEPT !.settings.pieceVersion = prepend("~", pieceVersion)]
             ELSE [step EXCEPT !.settings.pieceVersion = prepend("^", pieceVersion)]
    ELSE step

upgradePiece(step, stepName) ==
    IF step.name # stepName THEN step
    ELSE IF step.type \in {PIECE, TRIGGER_PIECE}
    THEN LET pieceVersion == step.settings.pieceVersion
             pieceName == step.settings.pieceName
         IN  IF isLegacyApp(pieceName, pieceVersion) THEN step
             ELSE IF startsWith(pieceVersion, "^") \/ startsWith(pieceVersion, "~") THEN step
             ELSE IF semverValid(pieceVersion)
                     /\ semverLt(pieceVersion, Version(<<>>, 1, 0, 0))
             THEN [step EXCEPT !.settings.pieceVersion = prepend("~", pieceVersion)]
             ELSE [step EXCEPT !.settings.pieceVersion = prepend("^", pieceVersion)]
    ELSE step

(***************************************************************************)
(* The rewriters handed to transferFlow.  A rewriter is a record naming    *)
(* the closure (kind) and holding the values the closure captures.         *)
(***************************************************************************)
nameIs(optStep, stepName) == optStep # Nil /\ optStep[1].name = stepName

\* the closure of deleteAction that empties the slot instead of splicing
deleteRewriterDropsNext(parentStep, request) ==
    IF nameIs(parentStep.nextAction, request.name)
    THEN [parentStep EXCEPT !.nextAction = Nil]
    ELSE parentStep

\* the closure of deleteAction
deleteRewriter(parentStep, request) ==
    LET p1 == IF nameIs(parentStep.nextAction, request.name)
              THEN [parentStep EXCEPT !.nextAction = parentStep.nextAction[1].nextAction]
              ELSE parentStep
    IN  CASE p1.type = BRANCH ->
                LET p2 == IF nameIs(p1.onFailureAction, request.name)
                          THEN [p1 EXCEPT !.onFailureAction = p1.onFailureAction[1].nextAction]
                          ELSE p1
                IN  IF nameIs(p2.onSuccessAction, request.name)
                    THEN [p2 EXCEPT !.onSuccessAction = p2.onSuccessAction[1].nextAction]
                    ELSE p2
          [] p1.type = LOOP_ON_ITEMS ->
                IF nameIs(p1.firstLoopAction, request.name)
                THEN [p1 EXCEPT !.firstLoopAction = p1.firstLoopAction[1].nextAction]
                ELSE p1
          [] p1.type = ROUTER ->
                [p1 EXCEPT !.children =
                    [i \in DOMAIN p1.children |->
                        IF nameIs(p1.children[i], request.name)
                        THEN p1.children[i][1].nextAction
                        ELSE p1.children[i]]]
          [] OTHER -> p1

\* children.findIndex((child) => child?.name === name), -1 when there is none
findChildIndex(children, stepName) ==
    LET \* child?.name: undefined for a null child
        nameOf(child) == IF child = Nil THEN NO_NAME ELSE child[1].name
        hits == {i \in DOMAIN children : nameOf(children[i]) = stepName}
    IN  IF hits = {} THEN -1
        ELSE (CHOOSE i \in hits : \A j \in hits : i <= j) - 1

\* the closure of updateAction
updateRewriter(parentStep, request) ==
    LET updated(optStep) == Some(createAction(request, extractActions(optStep[1])))
        inNext(p) ==
            IF nameIs(p.nextAction, request.name)
            THEN [p EXCEPT !.nextAction = updated(p.nextAction)]
            ELSE p
        atChild(p, childIndex) ==
            IF childIndex > -1 /\ p.children[childIndex + 1] # Nil
            THEN [p EXCEPT !.children[childIndex + 1] = updated(p.children[childIndex + 1])]
            ELSE p
        inChildren(p) ==
            IF p.type = ROUTER
            THEN atChild(p, findChildIndex(p.children, request.name))
            ELSE p
        inOnFailure(p) ==
            IF p.type = BRANCH /\ nameIs(p.onFailureAction, request.name)
            THEN [p EXCEPT !.onFailureAction = updated(p.onFailureAction)]
            ELSE p
        inOnSuccess(p) ==
            IF p.type = BRANCH /\ nameIs(p.onSuccessAction, request.name)
            THEN [p EXCEPT !.onSuccessAction = updated(p.onSuccessAction)]
            ELSE p
        inLoop(p) ==
            IF p.type = LOOP_ON_ITEMS /\ nameIs(p.firstLoopAction, request.name)
            THEN [p EXCEPT !.firstLoopAction = updated(p.firstLoopAction)]
            ELSE p
    IN  inLoop(inOnSuccess(inOnFailure(inChildren(inNext(parentStep)))))

\* a closure that also rejects the INSIDE_ locations on a parent without slots
addThrowsOnPlainParent(parentType, request) ==
    LET loc == request.stepLocationRelativeToParent
    IN  /\ loc # NO_LOCATION
        /\ \/ parentType = LOOP_ON_ITEMS /\ loc \notin {INSIDE_LOOP, AFTER}
           \/ parentType = BRANCH
                /\ loc \notin {INSIDE_TRUE_BRANCH, INSIDE_FALSE_BRANCH, AFTER}
           \/ parentType = ROUTER
                /\ ~(loc = INSIDE_BRANCH /\ request.branchIndex # NoIndex)
                /\ loc # AFTER
           \/ parentType \notin {LOOP_ON_ITEMS, BRANCH, ROUTER} /\ loc # AFTER

\* addAction's closure throws FLOW_OPERATION_INVALID on this parent
addThrows(parentType, request) ==
    LET loc == request.stepLocationRelativeToParent
    IN  /\ loc # NO_LOCATION
        /\ \/ parentType = LOOP_ON_ITEMS /\ loc \notin {INSIDE_LOOP, AFTER}
           \/ parentType = BRANCH
                /\ loc \notin {INSIDE_TRUE_BRANCH, INSIDE_FALSE_BRANCH, AFTER}
           \/ parentType = ROUTER
                /\ ~(loc = INSIDE_BRANCH /\ request.branchIndex # NoIndex)
                /\ loc # AFTER

\* the slot of the parent that addAction's closure assigns, on a parent on
\* which it does not throw
addSlot(parentStep, request) ==
    LET loc == request.stepLocationRelativeToParent
    IN  IF parentStep.type = LOOP_ON_ITEMS /\ loc = INSIDE_LOOP
        THEN INSIDE_LOOP
        ELSE IF parentStep.type = BRANCH /\ loc = INSIDE_TRUE_BRANCH
        THEN INSIDE_TRUE_BRANCH
        ELSE IF parentStep.type = BRANCH /\ loc = INSIDE_FALSE_BRANCH
        THEN INSIDE_FALSE_BRANCH
        ELSE IF parentStep.type = ROUTER /\ loc = INSIDE_BRANCH
                /\ request.branchIndex # NoIndex
        THEN INSIDE_BRANCH
        ELSE AFTER

\* the closure of addAction, on a parent on which it does not throw
addRewriter(parentStep, request, children) ==
    LET created(nextAction) ==
            Some(createAction(request.action, NextAndChildren(nextAction, children)))
        slot == addSlot(parentStep, request)
        successor ==
            CASE slot = INSIDE_LOOP -> parentStep.firstLoopAction
              [] slot = INSIDE_TRUE_BRANCH -> parentStep.onSuccessAction
              [] slot = INSIDE_FALSE_BRANCH -> parentStep.onFailureAction
              [] slot = INSIDE_BRANCH -> getAt(parentStep.children, request.branchIndex)
              [] OTHER -> parentStep.nextAction
        assigned(action) ==
            CASE slot = INSIDE_LOOP -> [parentStep EXCEPT !.firstLoopAction = action]
              [] slot = INSIDE_TRUE_BRANCH -> [parentStep EXCEPT !.onSuccessAction = action]
              [] slot = INSIDE_FALSE_BRANCH -> [parentStep EXCEPT !.onFailureAction = action]
              [] slot = INSIDE_BRANCH ->
                    [parentStep EXCEPT !.children = setAt(@, request.branchIndex, action)]
              [] OTHER -> [parentStep EXCEPT !.nextAction = action]
    IN  IF parentStep.name # request.parentStep THEN parentStep
        ELSE assigned(created(successor))

\* the closure of apply's ADD_BRANCH case
createEmptyBranch(pathNumber) ==
    [conditions |-> <<<<"emptyCondition">>>>,
     branchType |-> "CONDITION",
     branchName |-> "Branch " \o ToString(pathNumber)]

isRouterNamed(optStep, stepName) ==
    nameIs(optStep, stepName) /\ optStep[1].type = ROUTER

addBranchRewriter(parentStep, request) ==
    IF isRouterNamed(parentStep.nextAction, request.stepName)
    THEN LET router == parentStep.nextAction[1]
             branches == spliceInsert(router.settings.branches, request.branchIndex,
                                      createEmptyBranch(Len(router.settings.branches)))
             children == spliceInsert(router.children, request.branchIndex, Nil)
         IN  [parentStep EXCEPT !.nextAction =
                 Some([router EXCEPT !.settings.branches = branches,
                                     !.children = children])]
    ELSE parentStep

\* the closure of apply's DELETE_BRANCH case
deleteBranchRewriter(parentStep, request) ==
    IF isRouterNamed(parentStep.nextAction, request.stepName)
    THEN LET router == parentStep.nextAction[1]
         IN  [parentStep EXCEPT !.nextAction =
                 Some([router EXCEPT
                         !.settings.branches =
                             spliceDelete(router.settings.branches, request.branchIndex),
                         !.children = spliceDelete(router.children, request.branchIndex)])]
    ELSE parentStep

\* what a closure that throws leaves in place of a step, and transferStep and
\* transferFlow in place of their result
Thrown(error) == [thrown |-> error]

isThrown(value) == DOMAIN value = {"thrown"}

\* a non-empty string is truthy
truthy(optString) == optString # Nil /\ optString[1] # ""

\* the closure of normalize
normalizeRewriter(step) ==
    LET \* clonedStep.settings.inputUiInfo = ... on a step without settings
        withoutSettings == step.type = NO_TYPE
        c1 == [step EXCEPT !.settings.inputUiInfo = DEFAULT_SAMPLE_DATA_SETTINGS]
        c2 == IF truthy(c1.settings.input.auth) /\ step.type \in {PIECE, TRIGGER_PIECE}
              THEN [c1 EXCEPT !.settings.input.auth = Some("")]
              ELSE c1
    IN  IF withoutSettings THEN Thrown(TYPE_ERROR) ELSE upgradePiece(c2, c2.name)

\* a replacement that does not stop at the {{...}} spans
replaceOutsideSpansToo(input, oldStepName, newStepName) ==
    [i \in DOMAIN input |->
        IF input[i].id = oldStepName
        THEN [input[i] EXCEPT !.id = newStepName]
        ELSE input[i]]

\* content.replaceAll(new RegExp(`\\b${oldStepName}\\b`, 'g'), newStepName) inside
\* every {{...}} span of input
replaceOldStepNameWithNewOne(input, oldStepName, newStepName) ==
    [i \in DOMAIN input |->
        IF input[i].tpl /\ input[i].id = oldStepName
        THEN [input[i] EXCEPT !.id = newStepName]
        ELSE input[i]]

RECURSIVE replaceAllOldNames(_, _, _)
replaceAllOldNames(input, oldStepsNameToReplace, oldNameToNewName) ==
    IF oldStepsNameToReplace = <<>> THEN input
    ELSE replaceAllOldNames(
            replaceOldStepNameWithNewOne(input, Head(oldStepsNameToReplace),
                                         oldNameToNewName[Head(oldStepsNameToReplace)]),
            Tail(oldStepsNameToReplace), oldNameToNewName)

\* the closure duplicateStep and duplicateRouterChild hand to transferStep
duplicateRewriter(step, oldStepsNameToReplace, oldNameToNewName) ==
    [step EXCEPT
        !.displayName = @ \o " Copy",
        !.name = IF @ \in DOMAIN oldNameToNewName THEN oldNameToNewName[@] ELSE NO_NAME,
        !.settings.inputUiInfo = DEFAULT_SAMPLE_DATA_SETTINGS,
        !.settings.input.text =
            replaceAllOldNames(@, oldStepsNameToReplace, oldNameToNewName)]

\* rewriter records
DeleteRw(request) == [kind |-> "delete", request |-> request]
UpdateRw(request) == [kind |-> "update", request |-> request]
AddRw(request, children) == [kind |-> "add", request |-> request, children |-> children]
UpgradeRw(stepName) == [kind |-> "upgrade", stepName |-> stepName]
AddBranchRw(request) == [kind |-> "addBranch", request |-> request]
DeleteBranchRw(request) == [kind |-> "deleteBranch", request |-> request]
NormalizeRw == [kind |-> "normalize"]
DuplicateRw(oldNames, nameMap) ==
    [kind |-> "duplicate", oldStepsNameToReplace |-> oldNames, oldNameToNewName |-> nameMap]

\* the closure of updateFlowSecrets: the step takes the auth of the step of
\* its name in the original flow version, when that one has one
updateFlowSecretsRewriter(step, originalVersion) ==
    LET oldStep == getStep(originalVersion, step.name)
    IN  IF oldStep # Nil /\ truthy(oldStep[1].settings.input.auth)
        THEN \* step.settings.input.auth = ... on a step without settings
             IF step.type = NO_TYPE THEN Thrown(TYPE_ERROR)
             ELSE [step EXCEPT !.settings.input.auth = oldStep[1].settings.input.auth]
        ELSE step

UpdateFlowSecretsRw(originalVersion) ==
    [kind |-> "updateFlowSecrets", originalVersion |-> originalVersion]

transferFunction(rw, step) ==
    CASE rw.kind = "delete" -> deleteRewriter(step, rw.request)
      [] rw.kind = "update" -> updateRewriter(step, rw.request)
      [] rw.kind = "add" -> addRewriter(step, rw.request, rw.children)
      [] rw.kind = "upgrade" -> upgradePiece(step, rw.stepName)
      [] rw.kind = "addBranch" -> addBranchRewriter(step, rw.request)
      [] rw.kind = "deleteBranch" -> deleteBranchRewriter(step, rw.request)
      [] rw.kind = "normalize" -> normalizeRewriter(step)
      [] rw.kind = "updateFlowSecrets" ->
            updateFlowSecretsRewriter(step, rw.originalVersion)
      [] rw.kind = "duplicate" ->
            duplicateRewriter(step, rw.oldStepsNameToReplace, rw.oldNameToNewName)

RECURSIVE transferStep(_, _)
transferStep(step, rw) ==
    LET opt(o) == IF o = Nil THEN Nil ELSE Some(transferStep(o[1], rw))
        withChildren(updatedStep) ==
            IF updatedStep.type = BRANCH
            THEN [updatedStep EXCEPT !.onSuccessAction = opt(@),
                                     !.onFailureAction = opt(@)]
            ELSE IF updatedStep.type = LOOP_ON_ITEMS
            THEN [updatedStep EXCEPT !.firstLoopAction = opt(@)]
            ELSE IF updatedStep.type = ROUTER
            THEN [updatedStep EXCEPT !.children = [i \in DOMAIN @ |-> opt(@[i])]]
            ELSE updatedStep
        withNext(updatedStep) == [updatedStep EXCEPT !.nextAction = opt(@)]
        \* an exception of the closure, on the step or on a step below it, ends
        \* transferStep
        thrownBelow(updatedStep) ==
            {o \in {updatedStep.onSuccessAction, updatedStep.onFailureAction,
                    updatedStep.firstLoopAction, updatedStep.nextAction}
                       \cup Range(updatedStep.children) :
                IF o = Nil THEN FALSE ELSE isThrown(o[1])}
        raised(updatedStep) ==
            IF thrownBelow(updatedStep) = {} THEN updatedStep
            ELSE (CHOOSE o \in thrownBelow(updatedStep) : TRUE)[1]
        rewritten(updatedStep) ==
            IF isThrown(updatedStep) THEN updatedStep
            ELSE raised(withNext(withChildren(updatedStep)))
    IN  rewritten(transferFunction(rw, step))

transferFlow(flowVersion, rw) ==
    LET settled(trigger) ==
            IF isThrown(trigger) THEN trigger
            ELSE [flowVersion EXCEPT !.trigger = trigger]
    IN  settled(transferStep(flowVersion.trigger, rw))

(***************************************************************************)
(* Handlers.  A handler that can throw returns [err, flow]; flow is        *)
(* meaningful when err = NO_ERROR.                                         *)
(***************************************************************************)
Ok(flowVersion) == [err |-> NO_ERROR, flow |-> flowVersion]
Throw(error, flowVersion) == [err |-> error, flow |-> flowVersion]

deleteAction(flowVersion, request) == transferFlow(flowVersion, DeleteRw(request))

updateAction(flowVersion, request) == transferFlow(flowVersion, UpdateRw(request))

\* a request of ADD_ACTION
AddActionRequest(parentStep, action, location, branchIndex, branchName) ==
    [parentStep |-> parentStep, action |-> action,
     stepLocationRelativeToParent |-> location,
     branchIndex |-> branchIndex, branchName |-> branchName]

\* the first of two outcomes that is an error
firstError(outcome, laterOutcome) ==
    IF outcome # NO_ERROR THEN outcome ELSE laterOutcome

\* How transferStep ends under addAction's closure, the steps visited in its
\* order: the closure's throw on the first parent of the wrong kind, or
\* RANGE_ERROR when the recursion goes deeper than any finite result can be
\* (the inserted step is, or holds, a parent in its turn).
RECURSIVE addOutcome(_, _, _, _)
RECURSIVE addOutcomeOfChildren(_, _, _, _, _)
addOutcome(optStep, request, children, depthLeft) ==
    IF optStep = Nil THEN NO_ERROR
    ELSE IF depthLeft = 0 THEN RANGE_ERROR
    ELSE IF optStep[1].name = request.parentStep /\ addThrows(optStep[1].type, request)
    THEN FLOW_OPERATION_INVALID
    ELSE LET walk(o) == addOutcome(o, request, children, depthLeft - 1)
             inside(updatedStep) ==
                 IF updatedStep.type = BRANCH
                 THEN firstError(walk(updatedStep.onSuccessAction),
                                 walk(updatedStep.onFailureAction))
                 ELSE IF updatedStep.type = LOOP_ON_ITEMS
                 THEN walk(updatedStep.firstLoopAction)
                 ELSE IF updatedStep.type = ROUTER
                 THEN addOutcomeOfChildren(updatedStep.children, 1, request,
                                           children, depthLeft - 1)
                 ELSE NO_ERROR
             visit(updatedStep) ==
                 firstError(inside(updatedStep), walk(updatedStep.nextAction))
         IN  visit(addRewriter(optStep[1], request, children))

addOutcomeOfChildren(routerChildren, i, request, children, depthLeft) ==
    IF i > Len(routerChildren) THEN NO_ERROR
    ELSE firstError(addOutcome(routerChildren[i], request, children, depthLeft),
                    addOutcomeOfChildren(routerChildren, i + 1, request,
                                         children, depthLeft))

\* no result of a terminating addAction is deeper than this
addDepth(flowVersion, request, children) ==
    LET steps == getAllSteps(flowVersion.trigger)
        parents == {i \in DOMAIN steps : steps[i].name = request.parentStep}
        created == createAction(request.action, NextAndChildren(Nil, children))
    IN  Len(steps) + Cardinality(parents) * Len(traverseInternal(Some(created))) + 1

addAction(flowVersion, request, children) ==
    LET ended(outcome) ==
            IF outcome # NO_ERROR THEN Throw(outcome, flowVersion)
            ELSE Ok(transferFlow(flowVersion, AddRw(request, children)))
    IN  ended(addOutcome(Some(flowVersion.trigger), request, children,
                         addDepth(flowVersion, request, children)))

RECURSIVE removeAnySubsequentAction(_)
removeAnySubsequentAction(action) ==
    LET stripped ==
            CASE action.type = BRANCH ->
                    [action EXCEPT !.onSuccessAction = Nil, !.onFailureAction = Nil]
              [] action.type = ROUTER ->
                    [action EXCEPT !.children =
                        [i \in DOMAIN action.children |->
                            IF action.children[i] = Nil THEN Nil
                            ELSE Some(removeAnySubsequentAction(action.children[i][1]))]]
              [] action.type = LOOP_ON_ITEMS ->
                    [action EXCEPT !.firstLoopAction = Nil]
              [] OTHER -> action
    IN  [stripped EXCEPT !.nextAction = Nil]

branchNameOf(index) == "Branch " \o ToString(index)

RECURSIVE getImportOperations(_)
getImportOperations(optStep) ==
    IF optStep = Nil THEN <<>>
    ELSE LET step == optStep[1]
             add(parentStep, child, location, index, branchName) ==
                 <<AddActionRequest(parentStep, removeAnySubsequentAction(child[1]),
                                    location, index, branchName)>>
             \* step?.name ?? ''
             nameOrEmpty == IF step.name = NO_NAME THEN "" ELSE step.name
             nextOps == IF step.nextAction # Nil
                        THEN add(nameOrEmpty, step.nextAction, NO_LOCATION, NoIndex, UNDEFINED)
                        ELSE <<>>
             typeOps ==
                 CASE step.type = BRANCH ->
                         (IF step.onFailureAction # Nil
                          THEN add(nameOrEmpty, step.onFailureAction, INSIDE_FALSE_BRANCH,
                                   NoIndex, UNDEFINED)
                               \o getImportOperations(step.onFailureAction)
                          ELSE <<>>)
                         \o (IF step.onSuccessAction # Nil
                             THEN add(step.name, step.onSuccessAction, INSIDE_TRUE_BRANCH,
                                      NoIndex, UNDEFINED)
                                  \o getImportOperations(step.onSuccessAction)
                             ELSE <<>>)
                   [] step.type = LOOP_ON_ITEMS ->
                         IF step.firstLoopAction # Nil
                         THEN add(step.name, step.firstLoopAction, INSIDE_LOOP, NoIndex,
                                  UNDEFINED)
                              \o getImportOperations(step.firstLoopAction)
                         ELSE <<>>
                   [] step.type = ROUTER ->
                         flat([i \in DOMAIN step.children |->
                                 IF step.children[i] # Nil /\ step.name # NO_NAME
                                 THEN add(step.name, step.children[i], INSIDE_BRANCH, i - 1,
                                          branchNameOf(i - 1))
                                      \o getImportOperations(step.children[i])
                                 ELSE <<>>])
                   [] OTHER -> <<>>
         IN  nextOps \o typeOps \o getImportOperations(step.nextAction)

\* clonedVersion.valid = isValid(clonedVersion), when the handler returned
withValid(result) ==
    IF result.err # NO_ERROR THEN result
    ELSE Ok([result.flow EXCEPT !.valid = isValid(result.flow)])

\* flowHelper.apply for an ADD_ACTION operation
applyAddAction(flowVersion, request) ==
    LET upgraded(added) ==
            IF added.err # NO_ERROR THEN added
            ELSE Ok(transferFlow(added.flow, UpgradeRw(request.action.name)))
    IN  withValid(upgraded(addAction(flowVersion, request, Nil)))

\* operations.forEach((operation) => { flow = flowHelper.apply(flow, operation) })
(***************************************************************************)
(* The objects addAction's closure writes.  createAction builds a new step *)
(* but puts the children array it is handed into it as it is, so the steps *)
(* that array holds are visited, and written, as the objects of whoever     *)
(* handed the array: moveAction hands sourceStep.children, an array of its  *)
(* own argument.                                                            *)
(***************************************************************************)
OF_CLONED_FLOW == "clonedFlow"
OF_CREATE_ACTION == "createAction"
OF_CHILDREN_ARGUMENT == "children"
CHILDREN_WRITTEN == "children written"

\* How transferStep ends under addAction's closure, as addOutcome, with one
\* more end: CHILDREN_WRITTEN when the closure assigns a slot of a step the
\* children array holds, or an element of that array.  The step it assigns
\* holds the array in its turn: from then on the array leads to itself.
RECURSIVE addWrites(_, _, _, _, _)
RECURSIVE addWritesOfChildren(_, _, _, _, _, _, _)
addWrites(optStep, owner, request, children, depthLeft) ==
    IF optStep = Nil THEN NO_ERROR
    ELSE IF depthLeft = 0 THEN RANGE_ERROR
    ELSE LET step == optStep[1]
             matched == step.name = request.parentStep
             slot == IF matched THEN addSlot(step, request) ELSE NO_LOCATION
             below == IF owner = OF_CREATE_ACTION THEN OF_CLONED_FLOW ELSE owner
             held == IF owner = OF_CREATE_ACTION /\ children # Nil
                     THEN OF_CHILDREN_ARGUMENT ELSE below
             ownerIn(assigned) == IF slot = assigned THEN OF_CREATE_ACTION ELSE below
             walk(o, ownerOfStep) ==
                 addWrites(o, ownerOfStep, request, children, depthLeft - 1)
             inside(updatedStep) ==
                 IF updatedStep.type = BRANCH
                 THEN firstError(walk(updatedStep.onSuccessAction,
                                      ownerIn(INSIDE_TRUE_BRANCH)),
                                 walk(updatedStep.onFailureAction,
                                      ownerIn(INSIDE_FALSE_BRANCH)))
                 ELSE IF updatedStep.type = LOOP_ON_ITEMS
                 THEN walk(updatedStep.firstLoopAction, ownerIn(INSIDE_LOOP))
                 ELSE IF updatedStep.type = ROUTER
                 THEN addWritesOfChildren(updatedStep.children, 1,
                                          IF slot = INSIDE_BRANCH
                                          THEN request.branchIndex + 1 ELSE 0,
                                          held, request, children, depthLeft - 1)
                 ELSE NO_ERROR
             visit(updatedStep) ==
                 firstError(inside(updatedStep),
                            walk(updatedStep.nextAction, ownerIn(AFTER)))
         IN  IF matched /\ addThrows(step.type, request)
             THEN FLOW_OPERATION_INVALID
             ELSE IF matched /\ owner = OF_CHILDREN_ARGUMENT
             THEN CHILDREN_WRITTEN
             ELSE IF matched /\ owner = OF_CREATE_ACTION /\ children # Nil
                     /\ step.type = ROUTER /\ slot = INSIDE_BRANCH
             THEN CHILDREN_WRITTEN
             ELSE visit(addRewriter(step, request, children))

addWritesOfChildren(routerChildren, i, assigned, held, request, children, depthLeft) ==
    IF i > Len(routerChildren) THEN NO_ERROR
    ELSE firstError(addWrites(routerChildren[i],
                              IF i = assigned THEN OF_CREATE_ACTION ELSE held,
                              request, children, depthLeft),
                    addWritesOfChildren(routerChildren, i + 1, assigned, held,
                                        request, children, depthLeft))

RECURSIVE replay(_, _)
replay(result, operations) ==
    IF operations = <<>> \/ result.err # NO_ERROR THEN result
    ELSE replay(applyAddAction(result.flow, Head(operations)), Tail(operations))

moveAction(flowVersion, request) ==
    LET steps == getAllSteps(flowVersion.trigger)
        source == findByName(steps, request.name)
        destination == findByName(steps, request.newParentStep)
        sourceStep == source[1]
        clonedSourceStep == [sourceStep EXCEPT !.nextAction = Nil]
        childOperation ==
            IF sourceStep.type \in {LOOP_ON_ITEMS, BRANCH}
            THEN getImportOperations(Some(clonedSourceStep))
            ELSE <<>>
        deleted == deleteAction(flowVersion, [name |-> request.name])
        added == addAction(deleted,
                           AddActionRequest(request.newParentStep, sourceStep,
                                            request.stepLocationRelativeToNewParent,
                                            request.branchIndex, request.branchName),
                           IF sourceStep.type = ROUTER THEN Some(sourceStep.children) ELSE Nil)
    IN  IF source = Nil THEN Throw(FLOW_OPERATION_INVALID, flowVersion)
        ELSE IF ~isAction(sourceStep.type) THEN Throw(FLOW_OPERATION_INVALID, flowVersion)
        ELSE IF destination = Nil THEN Throw(FLOW_OPERATION_INVALID, flowVersion)
        ELSE replay(added, childOperation)

\* moveAction's addAction writes a step of moveAction's own argument: the
\* source is a router and a step its children hold has the new parent's name
moveWritesSource(flowVersion, request) ==
    LET steps == getAllSteps(flowVersion.trigger)
        source == findByName(steps, request.name)
        destination == findByName(steps, request.newParentStep)
        deleted == deleteAction(flowVersion, [name |-> request.name])
        added(sourceStep) ==
            AddActionRequest(request.newParentStep, sourceStep,
                             request.stepLocationRelativeToNewParent,
                             request.branchIndex, request.branchName)
        written(sourceStep) ==
            addWrites(Some(deleted.trigger), OF_CLONED_FLOW, added(sourceStep),
                      Some(sourceStep.children),
                      addDepth(deleted, added(sourceStep), Some(sourceStep.children)))
    IN  /\ source # Nil
        /\ isAction(source[1].type)
        /\ destination # Nil
        /\ source[1].type = ROUTER
        /\ written(source[1]) = CHILDREN_WRITTEN

normalize(flowVersion) == transferFlow(flowVersion, NormalizeRw)

\* a flow, of which the engine reads the version
PopulatedFlow(version) == [version |-> version]

updateFlowSecrets(originalFlow, newFlow) ==
    transferFlow(newFlow.version, UpdateFlowSecretsRw(originalFlow.version))

\* clonedStep.settings.inputUiInfo = ... on a step without settings
normalizeThrows(flowVersion) ==
    \E step \in Range(getAllSteps(flowVersion.trigger)) : step.type = NO_TYPE

\* { ...step, dfsIndex }
StepWithIndex(step, dfsIndex) == [step |-> step, dfsIndex |-> dfsIndex]

findPathToStep(targetStepName, trigger) ==
    LET listed == getAllSteps(trigger)
        steps == [i \in DOMAIN listed |-> StepWithIndex(listed[i], i - 1)]
        leadsToTarget(entry) ==
            \E s \in Range(getAllSteps(entry.step)) : s.name = targetStepName
        notTarget(entry) == entry.step.name # targetStepName
    IN  SelectSeq(SelectSeq(steps, leadsToTarget), notTarget)

(***************************************************************************)
(* Fresh names.                                                            *)
(***************************************************************************)
numberedName(stepPrefix, availableNumber) ==
    stepPrefix \o "_" \o ToString(availableNumber)

RECURSIVE findUnusedNameFrom(_, _, _)
findUnusedNameFrom(names, stepPrefix, availableNumber) ==
    IF numberedName(stepPrefix, availableNumber) \in Range(names)
    THEN findUnusedNameFrom(names, stepPrefix, availableNumber + 1)
    ELSE numberedName(stepPrefix, availableNumber)

\* a name numbered by the count of the names instead of the first unused number
findUnusedNameByCount(names, stepPrefix) == numberedName(stepPrefix, Len(names) + 1)

findUnusedName(names, stepPrefix) == findUnusedNameFrom(names, stepPrefix, 1)

findAvailableStepName(flowVersion, stepPrefix) ==
    findUnusedName(stepNames(flowVersion), stepPrefix)

\* oldStepsNameToReplace.forEach: the map oldNameToNewName, a later entry for
\* the same old name replacing the earlier one
RECURSIVE buildNameMap(_, _, _)
buildNameMap(oldStepsNameToReplace, existingNames, oldNameToNewName) ==
    IF oldStepsNameToReplace = <<>> THEN oldNameToNewName
    ELSE LET newName == findUnusedName(existingNames, "step")
         IN  buildNameMap(Tail(oldStepsNameToReplace),
                          Append(existingNames, newName),
                          (Head(oldStepsNameToReplace) :> newName) @@ oldNameToNewName)

EmptyMap == [n \in {} |-> ""]

namesOf(steps) == [i \in DOMAIN steps |-> steps[i].name]

(***************************************************************************)
(* duplicateStep and duplicateRouterChild.                                 *)
(***************************************************************************)
duplicatedStepOf(clonedStep, flowVersion) ==
    LET existingNames == stepNames(flowVersion)
        oldStepsNameToReplace == namesOf(getAllSteps(clonedStep))
        oldNameToNewName == buildNameMap(oldStepsNameToReplace, existingNames, EmptyMap)
    IN  transferStep(clonedStep, DuplicateRw(oldStepsNameToReplace, oldNameToNewName))

\* step.settings is undefined on the object createAction returns for a request
\* that is no action: reading a property of it throws
settingsUndefined(steps) == \E i \in DOMAIN steps : steps[i].type = NO_TYPE

duplicateStep(stepName, flowVersionWithArtifacts) ==
    LET found == getStep(flowVersionWithArtifacts, stepName)
        clonedStep == [found[1] EXCEPT !.nextAction = Nil]
        finalFlow(duplicatedStep) ==
            addAction(flowVersionWithArtifacts,
                      AddActionRequest(stepName, duplicatedStep, AFTER, NoIndex, UNDEFINED),
                      IF duplicatedStep.type = ROUTER
                      THEN Some([i \in DOMAIN duplicatedStep.children |-> Nil])
                      ELSE Nil)
        imported(duplicatedStep) ==
            replay(finalFlow(duplicatedStep), getImportOperations(Some(duplicatedStep)))
    IN  IF found = Nil
        THEN \* JSON.parse(JSON.stringify(undefined))
             Throw(SYNTAX_ERROR, flowVersionWithArtifacts)
        ELSE IF settingsUndefined(getAllSteps(clonedStep))
        THEN Throw(TYPE_ERROR, flowVersionWithArtifacts)
        ELSE imported(duplicatedStepOf(clonedStep, flowVersionWithArtifacts))

\* the subtree with the step at position k of its traversal replaced
RECURSIVE replaceStepAt(_, _, _)
RECURSIVE sizesBefore(_, _)
sizesBefore(children, i) ==
    IF i <= 1 THEN 0
    ELSE sizesBefore(children, i - 1) + Len(traverseInternal(children[i - 1]))

replaceStepAt(optStep, k, newStep) ==
    IF optStep = Nil \/ k < 1 \/ k > Len(traverseInternal(optStep)) THEN optStep
    ELSE IF k = 1 THEN Some(newStep)
    ELSE LET s == optStep[1]
             size(o) == Len(traverseInternal(o))
             a == IF s.type = BRANCH THEN size(s.onSuccessAction) ELSE 0
             b == IF s.type = BRANCH THEN size(s.onFailureAction) ELSE 0
             c == IF s.type = ROUTER THEN sizesBefore(s.children, Len(s.children) + 1) ELSE 0
             d == IF s.type = LOOP_ON_ITEMS THEN size(s.firstLoopAction) ELSE 0
             s1 == IF s.type = BRANCH
                   THEN [s EXCEPT
                           !.onSuccessAction = replaceStepAt(@, k - 1, newStep),
                           !.onFailureAction = replaceStepAt(@, k - 1 - a, newStep)]
                   ELSE IF s.type = ROUTER
                   THEN [s EXCEPT !.children =
                           [i \in DOMAIN s.children |->
                               replaceStepAt(s.children[i],
                                             k - 1 - sizesBefore(s.children, i), newStep)]]
                   ELSE IF s.type = LOOP_ON_ITEMS
                   THEN [s EXCEPT !.firstLoopAction = replaceStepAt(@, k - 1, newStep)]
                   ELSE s
         IN  Some([s1 EXCEPT !.nextAction = replaceStepAt(@, k - 1 - a - b - c - d, newStep)])

\* position in getAllSteps of the step getStep returns, 0 when there is none
indexOfStep(flowVersion, stepName) ==
    LET steps == getAllSteps(flowVersion.trigger)
        hits == {i \in DOMAIN steps : steps[i].name = stepName}
    IN  IF hits = {} THEN 0 ELSE CHOOSE i \in hits : \A j \in hits : i <= j

GENERIC_ERROR == "Error"

\* flowVersionWithArtifacts after the two splice(-1, 0, ...) calls on routerStep
splicedRouterFlow(routerName, childIndex, flowVersionWithArtifacts) ==
    LET routerStep == getStep(flowVersionWithArtifacts, routerName)[1]
        duplicatedBranch ==
            [routerStep.settings.branches[childIndex + 1]
                EXCEPT !.branchName = @ \o " Copy"]
        spliced == [routerStep EXCEPT
                        !.settings.branches = spliceInsert(@, -1, duplicatedBranch),
                        !.children = spliceInsert(@, -1, Nil)]
    IN  [flowVersionWithArtifacts EXCEPT !.trigger =
            replaceStepAt(Some(@), indexOfStep(flowVersionWithArtifacts, routerName),
                          spliced)[1]]

duplicateRouterChild(routerName, childIndex, flowVersionWithArtifacts) ==
    LET found == getStep(flowVersionWithArtifacts, routerName)
        routerStep == found[1]
        inRange(array) == childIndex >= 0 /\ childIndex < Len(array)
        clonedChildStep == routerStep.children[childIndex + 1]
        finalFlow(mutated, duplicatedStep) ==
            addAction(mutated,
                      AddActionRequest(routerName, duplicatedStep, INSIDE_BRANCH,
                                       Len(routerStep.children) + 1 - 2, UNDEFINED),
                      Nil)
        imported(mutated, duplicatedStep) ==
            replay(finalFlow(mutated, duplicatedStep),
                   getImportOperations(Some(duplicatedStep)))
        spliced(mutated) ==
            IF clonedChildStep = Nil THEN Ok(mutated)
            ELSE IF settingsUndefined(traverseInternal(clonedChildStep))
            THEN Throw(TYPE_ERROR, mutated)
            ELSE imported(mutated,
                          duplicatedStepOf(clonedChildStep[1], flowVersionWithArtifacts))
    IN  IF found = Nil THEN Throw(GENERIC_ERROR, flowVersionWithArtifacts)
        ELSE IF routerStep.type # ROUTER
        THEN \* routerStep.children is undefined
             Throw(TYPE_ERROR, flowVersionWithArtifacts)
        ELSE IF ~inRange(routerStep.children) \/ ~inRange(routerStep.settings.branches)
        THEN \* JSON.parse(JSON.stringify(undefined))
             Throw(SYNTAX_ERROR, flowVersionWithArtifacts)
        ELSE spliced(splicedRouterFlow(routerName, childIndex, flowVersionWithArtifacts))

(***************************************************************************)
(* flowHelper.apply.  An operation is [type, request].                     *)
(***************************************************************************)
Operation(type, request) == [type |-> type, request |-> request]

\* the cases of the switch in apply, each followed by the assignment of valid
applyMoveAction(clonedVersion, request) ==
    withValid(moveAction(clonedVersion, request))

applyLockFlow(clonedVersion) ==
    withValid(Ok([clonedVersion EXCEPT !.state = LOCKED]))

\* a CHANGE_NAME that also puts the flow version back to DRAFT
applyChangeNameUnlocks(clonedVersion, request) ==
    withValid(Ok([clonedVersion EXCEPT !.displayName = request.displayName,
                                       !.state = DRAFT]))

applyChangeName(clonedVersion, request) ==
    withValid(Ok([clonedVersion EXCEPT !.displayName = request.displayName]))

applyDeleteAction(clonedVersion, request) ==
    withValid(Ok(deleteAction(clonedVersion, request)))

applyUpdateAction(clonedVersion, request) ==
    withValid(Ok(transferFlow(updateAction(clonedVersion, request),
                              UpgradeRw(request.name))))

applyUpdateTrigger(clonedVersion, request) ==
    withValid(Ok(transferFlow(
                    [clonedVersion EXCEPT !.trigger =
                        createTrigger(clonedVersion.trigger.name, request,
                                      clonedVersion.trigger.nextAction)],
                    UpgradeRw(request.name))))

applyDuplicateAction(clonedVersion, request) ==
    withValid(duplicateStep(request.stepName, clonedVersion))

applyDeleteBranch(flowVersion, request) ==
    withValid(Ok(transferFlow(flowVersion, DeleteBranchRw(request))))

applyAddBranch(flowVersion, request) ==
    withValid(Ok(transferFlow(flowVersion, AddBranchRw(request))))

applyDuplicateBranch(clonedVersion, request) ==
    withValid(duplicateRouterChild(request.stepName, request.branchIndex, clonedVersion))

apply(flowVersion, operation) ==
    LET clonedVersion == flowVersion
        request == operation.request
    IN  CASE operation.type = MOVE_ACTION -> applyMoveAction(clonedVersion, request)
          [] operation.type = LOCK_FLOW -> applyLockFlow(clonedVersion)
          [] operation.type = CHANGE_NAME -> applyChangeName(clonedVersion, request)
          [] operation.type = DELETE_ACTION -> applyDeleteAction(clonedVersion, request)
          [] operation.type = ADD_ACTION -> applyAddAction(clonedVersion, request)
          [] operation.type = UPDATE_ACTION -> applyUpdateAction(clonedVersion, request)
          [] operation.type = UPDATE_TRIGGER -> applyUpdateTrigger(clonedVersion, request)
          [] operation.type = DUPLICATE_ACTION ->
                applyDuplicateAction(clonedVersion, request)
          [] operation.type = DELETE_BRANCH -> applyDeleteBranch(flowVersion, request)
          [] operation.type = ADD_BRANCH -> applyAddBranch(flowVersion, request)
          [] operation.type = DUPLICATE_BRANCH ->
                applyDuplicateBranch(clonedVersion, request)
          [] OTHER -> withValid(Ok(clonedVersion))

(***************************************************************************)
(* Object identity.  apply works on a JSON clone of its argument           *)
(* (clonedVersion) and transferFlow on a JSON clone of its own argument    *)
(* (clonedFlow); the handlers write these objects in place.  The content   *)
(* of the caller's object after the call is its content before the call    *)
(* unless one of the writes lands on it.                                   *)
(***************************************************************************)
INPUT_OBJECT == "flowVersion"
CLONE_OBJECT == "clone"
CLONED_FLOW_OBJECT == "clonedFlow"

\* apply without the clone: let clonedVersion = flowVersion
clonedVersionObjectAliased == INPUT_OBJECT

\* let clonedVersion = JSON.parse(JSON.stringify(flowVersion)): the object it names
clonedVersionObject == CLONE_OBJECT

\* const clonedFlow = JSON.parse(JSON.stringify(flowVersion)) in transferFlow
clonedFlowObject(argument) == CLONED_FLOW_OBJECT

\* an object that a chain of its own fields leads back to: no finite flow
\* version, and JSON.stringify of it throws
CYCLIC_OBJECT == [cyclic |-> TRUE]

\* the content of the object clonedVersion first names, when apply returns or throws
clonedVersionAfter(flowVersion, operation, result) ==
    LET request == operation.request
        viaTransferFlow ==
            \* the handler hands clonedVersion to transferFlow
            IF clonedFlowObject(clonedVersionObject) = clonedVersionObject
               /\ result.err = NO_ERROR
            THEN result.flow ELSE flowVersion
    IN  CASE operation.type \in {LOCK_FLOW, CHANGE_NAME} -> result.flow
          [] operation.type = UPDATE_TRIGGER ->
                [flowVersion EXCEPT !.trigger =
                    createTrigger(flowVersion.trigger.name, request,
                                  flowVersion.trigger.nextAction)]
          [] operation.type = DUPLICATE_BRANCH ->
                IF result.err \in {GENERIC_ERROR, SYNTAX_ERROR} THEN flowVersion
                ELSE IF getStep(flowVersion, request.stepName)[1].type # ROUTER
                THEN flowVersion
                ELSE IF getAt(getStep(flowVersion, request.stepName)[1].children,
                              request.branchIndex) = Nil
                THEN result.flow
                ELSE splicedRouterFlow(request.stepName, request.branchIndex, flowVersion)
          [] operation.type = MOVE_ACTION ->
                \* moveAction reads sourceStep in clonedVersion and hands
                \* sourceStep.children to addAction
                IF moveWritesSource(flowVersion, request) THEN CYCLIC_OBJECT
                ELSE viaTransferFlow
          [] operation.type \in {DELETE_ACTION, ADD_ACTION, UPDATE_ACTION,
                                 DUPLICATE_ACTION} -> viaTransferFlow
          [] operation.type \in {DELETE_BRANCH, ADD_BRANCH} ->
                \* clonedVersion = transferFlow(flowVersion, ...): the object
                \* clonedVersion first names is read by nobody
                flowVersion
          [] OTHER -> result.flow

\* the content of the caller's flow version when apply returns or throws
callerFlowAfter(flowVersion, operation, result) ==
    IF operation.type \in {DELETE_BRANCH, ADD_BRANCH}
    THEN \* transferFlow is handed flowVersion itself
         IF clonedFlowObject(INPUT_OBJECT) = INPUT_OBJECT THEN result.flow
         ELSE flowVersion
    ELSE IF clonedVersionObject = INPUT_OBJECT
    THEN clonedVersionAfter(flowVersion, operation, result)
    ELSE flowVersion

\* the content of the caller's flow version when normalize returns
callerFlowAfterNormalize(flowVersion) ==
    IF clonedFlowObject(INPUT_OBJECT) = INPUT_OBJECT THEN normalize(flowVersion)
    ELSE flowVersion

(***************************************************************************)
(* Flow versions the model starts from.                                    *)
(***************************************************************************)
SampleData ==
    [currentSelectedData |-> "sample", sampleDataFileId |-> "file_1",
     lastTestDate |-> "2024-01-01"]

TwoBranches ==
    <<[conditions |-> <<<<"c1">>>>, branchType |-> "CONDITION", branchName |-> "Branch 1"],
      [conditions |-> <<>>, branchType |-> "FALLBACK", branchName |-> "Otherwise"]>>

ThreeBranches ==
    <<[conditions |-> <<<<"c1">>>>, branchType |-> "CONDITION", branchName |-> "Branch 1"],
      [conditions |-> <<<<"c2">>>>, branchType |-> "CONDITION", branchName |-> "Paid"],
      [conditions |-> <<>>, branchType |-> "FALLBACK", branchName |-> "Otherwise"]>>

pieceSettings(pieceName, pieceVersion, auth, text, inputUiInfo) ==
    Settings(pieceName, pieceVersion, auth, text, inputUiInfo, <<>>, TRUE)

codeStep(name, valid) ==
    Step(name, CODE, valid, "Code", [PlainSettings EXCEPT !.inputUiInfo = SampleData])
pieceStep(name, settings) == Step(name, PIECE, TRUE, "P", settings)
loopStep(name, body) ==
    [Step(name, LOOP_ON_ITEMS, TRUE, "Loop", PlainSettings) EXCEPT !.firstLoopAction = body]
branchStep(name, onSuccess, onFailure) ==
    [Step(name, BRANCH, TRUE, "Branch", PlainSettings)
        EXCEPT !.onSuccessAction = onSuccess, !.onFailureAction = onFailure]
routerStep(name, branches, children) ==
    [Step(name, ROUTER, TRUE, "Router", [PlainSettings EXCEPT !.branches = branches])
        EXCEPT !.children = children]
emptyTrigger == Step("trigger", TRIGGER_EMPTY, FALSE, "Select Trigger", PlainSettings)
pieceTrigger(pieceVersion) ==
    Step("trigger", TRIGGER_PIECE, TRUE, "New Message",
         pieceSettings(SLACK, pieceVersion, Some("conn_1"), <<>>, SampleData))
then(step, next) == [step EXCEPT !.nextAction = Some(next)]

\* trigger -> branch {success: code -> piece, failure: code} -> legacy piece
Flow1 ==
    FlowVersion("flow 1", DRAFT,
        then(pieceTrigger(Version(<<>>, 0, 4, 2)),
             then(branchStep("step_1",
                     Some(then(codeStep("step_2", TRUE),
                               pieceStep("step_3",
                                   pieceSettings(SLACK, Version(<<>>, 1, 2, 0), Some("conn_1"),
                                       <<Txt("hello"), Ref("step_2"), Txt("step_2")>>,
                                       SampleData)))),
                     Some(codeStep("step_4", TRUE))),
                  pieceStep("step_5",
                      pieceSettings(GMAIL, Version(<<>>, 0, 2, 0), Nil, <<>>,
                                    DEFAULT_SAMPLE_DATA_SETTINGS)))),
        TRUE)

\* trigger -> loop {router with three branches, the last two empty} -> invalid code
Flow2 ==
    FlowVersion("flow 2", DRAFT,
        then(emptyTrigger,
             then(loopStep("step_1",
                     Some(routerStep("step_2", ThreeBranches,
                             <<Some(pieceStep("step_3",
                                       pieceSettings(GOOGLE_SHEETS, Version(<<"^">>, 0, 5, 0),
                                           Some(""), <<Ref("step_1")>>, SampleData))),
                               Nil, Nil>>))),
                  codeStep("step_4", FALSE))),
        FALSE)

\* trigger -> router [code -> piece, loop {code}]
Flow3 ==
    FlowVersion("flow 3", LOCKED,
        then(pieceTrigger(Version(<<"~">>, 0, 4, 2)),
             routerStep("step_1", TwoBranches,
                 <<Some(then(codeStep("step_2", TRUE),
                             pieceStep("step_3",
                                 pieceSettings(SLACK, Version(<<>>, 0, 9, 1), Some("conn_2"),
                                     <<Ref("step_2"), Ref("step_20"), Ref("step_1")>>,
                                     SampleData)))),
                   Some(loopStep("step_4", Some(codeStep("step_5", TRUE))))>>)),
        TRUE)

\* a new flow: the trigger alone
Flow4 == FlowVersion("flow 4", DRAFT, emptyTrigger, FALSE)

\* trigger -> piece that refers to itself; the valid flag of the version is stale
Flow5 ==
    FlowVersion("flow 5", DRAFT,
        then(emptyTrigger,
             pieceStep("step_1",
                 pieceSettings(SLACK, Version(<<>>, 2, 0, 0), Some("conn_1"),
                     <<Txt("hello"), Ref("step_1")>>, SampleData))),
        TRUE)

\* trigger -> branch {success: loop {router [piece, code]} -> code}
Flow6 ==
    FlowVersion("flow 6", DRAFT,
        then(pieceTrigger(Version(<<"^">>, 1, 0, 0)),
             branchStep("step_2",
                 Some(then(loopStep("step_1",
                              Some(routerStep("step_4", TwoBranches,
                                      <<Some(pieceStep("step_3",
                                                pieceSettings(GMAIL, Version(<<>>, 0, 3, 1),
                                                    Nil, <<Ref("step_1")>>, SampleData))),
                                        Some(codeStep("step_6", TRUE))>>))),
                           codeStep("step_7", TRUE))),
                 Nil)),
        TRUE)

\* trigger -> router [router with three branches [code, empty, empty], empty]
Flow7 ==
    FlowVersion("flow 7", DRAFT,
        then(emptyTrigger,
             routerStep("step_1", TwoBranches,
                 <<Some(routerStep("step_2", ThreeBranches,
                           <<Some(codeStep("step_3", TRUE)), Nil, Nil>>)),
                   Nil>>)),
        FALSE)

InitialFlows == {Flow1, Flow2, Flow3, Flow4, Flow5, Flow6, Flow7}

\* the original flows updateFlowSecrets is handed: the flow versions above,
\* whose steps share names and differ in their auth
OriginalVersions == InitialFlows

(***************************************************************************)
(* Requests the model draws.                                               *)
(***************************************************************************)
MISSING == "step_404"

namesIn(flowVersion) == Range(stepNames(flowVersion))

StepNameInputs(flowVersion) == namesIn(flowVersion) \cup {MISSING}

BranchIndexInputs == 0..MaxBranchIndex

\* the action of a request: a step record without descendants unless stated
NewActions(name) ==
    { pieceStep(name, pieceSettings(SLACK, Version(<<>>, 1, 2, 0), Some("conn_1"),
                                    <<Ref("trigger")>>, SampleData)),
      pieceStep(name, pieceSettings(GOOGLE_SHEETS, Version(<<>>, 0, 4, 2), Nil, <<>>,
                                    DEFAULT_SAMPLE_DATA_SETTINGS)),
      codeStep(name, FALSE),
      Step(name, CODE, TRUE, "Bad code", [PlainSettings EXCEPT !.schemaOk = FALSE]),
      loopStep(name, Nil),
      branchStep(name, Nil, Nil),
      routerStep(name, TwoBranches, <<Nil, Nil>>),
      routerStep(name, ThreeBranches, <<Nil, Nil, Nil>>),
      \* a request that carries descendants
      then(loopStep(name, Some(codeStep("step_90", TRUE))), codeStep("step_91", TRUE)),
      \* a request whose type is a trigger type
      Step(name, TRIGGER_EMPTY, TRUE, "Not an action", PlainSettings) }

NewActionNames(flowVersion) == {findAvailableStepName(flowVersion, "step"), "step_1"}

NewTriggers(name) ==
    { Step(name, TRIGGER_PIECE, TRUE, "Webhook",
           pieceSettings(SLACK, Version(<<>>, 0, 7, 0), Some("conn_1"), <<>>, SampleData)),
      Step(name, TRIGGER_EMPTY, FALSE, "Select Trigger", PlainSettings) }

LocationInputs == StepLocationRelativeToParent \cup {NO_LOCATION}

IndexInputsFor(location) ==
    IF location = INSIDE_BRANCH THEN BranchIndexInputs \cup {NoIndex} ELSE {NoIndex}

(***************************************************************************)
(* The state machine: a caller holds a flow version and calls the engine.  *)
(***************************************************************************)
NORMALIZE == "NORMALIZE"
UPDATE_FLOW_SECRETS == "UPDATE_FLOW_SECRETS"
DUPLICATE_STEP == "DUPLICATE_STEP"

\* no helper function has been called on its own
NoCall == [fn |-> "none"]

Init ==
    /\ flow \in InitialFlows
    /\ prev = flow
    /\ op = Operation(NO_OP, Nil)
    /\ err = NO_ERROR
    /\ callerFlow = flow
    /\ nops = 0
    /\ frames = {}
    /\ started = <<>>
    /\ arg = NoCall
    /\ ret = Nil

\* the caller calls flowHelper.apply(flow, operation), result being what the
\* case of operation.type in apply gives, and keeps the flow version it returns
Call(operation, result) ==
    /\ flow' = IF result.err = NO_ERROR THEN result.flow ELSE flow
    /\ err' = result.err
    /\ prev' = flow
    /\ op' = operation
    /\ callerFlow' = callerFlowAfter(flow, operation, result)
    /\ nops' = nops + 1
    /\ UNCHANGED <<frames, started, arg, ret>>

MoveAction ==
    /\ nops < MaxOps
    /\ \E name \in StepNameInputs(flow), newParentStep \in StepNameInputs(flow),
          location \in StepLocationRelativeToParent :
           \E branchIndex \in IndexInputsFor(location) :
               LET request == [name |-> name, newParentStep |-> newParentStep,
                               stepLocationRelativeToNewParent |-> location,
                               branchIndex |-> branchIndex, branchName |-> UNDEFINED]
               IN  Call(Operation(MOVE_ACTION, request), applyMoveAction(flow, request))

LockFlow ==
    /\ nops < MaxOps
    /\ Call(Operation(LOCK_FLOW, [displayName |-> UNDEFINED]), applyLockFlow(flow))

ChangeName ==
    /\ nops < MaxOps
    /\ \E displayName \in {"flow 1", "renamed"} :
           LET request == [displayName |-> displayName]
           IN  Call(Operation(CHANGE_NAME, request), applyChangeName(flow, request))

DeleteAction ==
    /\ nops < MaxOps
    /\ \E name \in StepNameInputs(flow) :
           LET request == [name |-> name]
           IN  Call(Operation(DELETE_ACTION, request), applyDeleteAction(flow, request))

AddAction ==
    /\ nops < MaxOps
    /\ \E parentStep \in StepNameInputs(flow), location \in LocationInputs,
          name \in NewActionNames(flow) :
           \E branchIndex \in IndexInputsFor(location), action \in NewActions(name) :
               LET request == AddActionRequest(parentStep, action, location, branchIndex,
                                               UNDEFINED)
               IN  Call(Operation(ADD_ACTION, request), applyAddAction(flow, request))

UpdateAction ==
    /\ nops < MaxOps
    /\ \E name \in StepNameInputs(flow) :
           \E action \in NewActions(name) :
               Call(Operation(UPDATE_ACTION, action), applyUpdateAction(flow, action))

UpdateTrigger ==
    /\ nops < MaxOps
    /\ \E name \in {"trigger", "step_1"} :
           \E request \in NewTriggers(name) :
               Call(Operation(UPDATE_TRIGGER, request), applyUpdateTrigger(flow, request))

DuplicateAction ==
    /\ nops < MaxOps
    /\ \E stepName \in StepNameInputs(flow) :
           LET request == [stepName |-> stepName]
           IN  Call(Operation(DUPLICATE_ACTION, request),
                    applyDuplicateAction(flow, request))

DeleteBranch ==
    /\ nops < MaxOps
    /\ \E stepName \in StepNameInputs(flow), branchIndex \in BranchIndexInputs :
           LET request == [stepName |-> stepName, branchIndex |-> branchIndex]
           IN  Call(Operation(DELETE_BRANCH, request), applyDeleteBranch(flow, request))

AddBranch ==
    /\ nops < MaxOps
    /\ \E stepName \in StepNameInputs(flow), branchIndex \in BranchIndexInputs :
           LET request == [stepName |-> stepName, branchIndex |-> branchIndex]
           IN  Call(Operation(ADD_BRANCH, request), applyAddBranch(flow, request))

DuplicateBranch ==
    /\ nops < MaxOps
    /\ \E stepName \in StepNameInputs(flow), branchIndex \in BranchIndexInputs :
           LET request == [stepName |-> stepName, branchIndex |-> branchIndex]
           IN  Call(Operation(DUPLICATE_BRANCH, request),
                    applyDuplicateBranch(flow, request))

\* the caller calls flowHelper.normalize(flow) and keeps what it returns
Normalize ==
    /\ nops < MaxOps
    /\ flow' = IF normalizeThrows(flow) THEN flow ELSE normalize(flow)
    /\ err' = IF normalizeThrows(flow) THEN TYPE_ERROR ELSE NO_ERROR
    /\ prev' = flow
    /\ op' = Operation(NORMALIZE, Nil)
    /\ callerFlow' = callerFlowAfterNormalize(flow)
    /\ nops' = nops + 1
    /\ UNCHANGED <<frames, started, arg, ret>>

\* the caller calls flowHelper.updateFlowSecrets(originalFlow, { version: flow })
\* and keeps the flow version the promise resolves to; the function awaits
\* nothing, the call is one step
UpdateFlowSecrets ==
    /\ nops < MaxOps
    /\ \E originalVersion \in OriginalVersions :
           LET settled(newVersion) ==
                   /\ flow' = IF isThrown(newVersion) THEN flow ELSE newVersion
                   /\ err' = IF isThrown(newVersion) THEN newVersion.thrown ELSE NO_ERROR
                   /\ callerFlow' =
                          IF clonedFlowObject(INPUT_OBJECT) = INPUT_OBJECT
                             /\ ~isThrown(newVersion)
                          THEN newVersion ELSE flow
           IN  /\ settled(updateFlowSecrets(PopulatedFlow(originalVersion),
                                            PopulatedFlow(flow)))
               /\ op' = Operation(UPDATE_FLOW_SECRETS,
                                  [originalFlow |-> PopulatedFlow(originalVersion)])
    /\ prev' = flow
    /\ nops' = nops + 1
    /\ UNCHANGED <<frames, started, arg, ret>>

\* the caller calls flowHelper.duplicateStep(stepName, flow) itself and keeps
\* the flow version it returns: valid is assigned only where the replay of
\* the import operations goes through apply
DuplicateStep ==
    /\ nops < MaxOps
    /\ \E stepName \in StepNameInputs(flow) :
           LET ended(result) ==
                   /\ flow' = IF result.err = NO_ERROR THEN result.flow ELSE flow
                   /\ err' = result.err
                   /\ callerFlow' =
                          IF clonedFlowObject(INPUT_OBJECT) = INPUT_OBJECT
                             /\ result.err = NO_ERROR
                          THEN result.flow ELSE flow
           IN  /\ ended(duplicateStep(stepName, flow))
               /\ op' = Operation(DUPLICATE_STEP, [stepName |-> stepName])
    /\ prev' = flow
    /\ nops' = nops + 1
    /\ UNCHANGED <<frames, started, arg, ret>>

Next ==
    \/ MoveAction
    \/ LockFlow
    \/ ChangeName
    \/ DeleteAction
    \/ AddAction
    \/ UpdateAction
    \/ UpdateTrigger
    \/ DuplicateAction
    \/ DeleteBranch
    \/ AddBranch
    \/ DuplicateBranch
    \/ Normalize
    \/ UpdateFlowSecrets
    \/ DuplicateStep

Spec == Init /\ [][Next]_vars

(***************************************************************************)
(* transferFlowAsync / transferStepAsync.  The rewriter returns a promise. *)
(* Every call of transferStepAsync is a frame: the step it works on, its   *)
(* place in the tree and the await it is suspended at.  Calling            *)
(* transferStepAsync runs it up to its first await, which invokes the      *)
(* rewriter on the step; the promise of the rewriter completes at a time   *)
(* the engine does not choose.                                             *)
(***************************************************************************)
TRANSFER_FLOW_ASYNC == "TRANSFER_FLOW_ASYNC"

\* the awaits of transferStepAsync, and its return
AT_TRANSFER_FUNCTION == "transferFunction"
AT_ON_SUCCESS == "onSuccessAction"
AT_ON_FAILURE == "onFailureAction"
AT_FIRST_LOOP == "firstLoopAction"
AT_CHILDREN == "children"
AT_NEXT == "nextAction"
RETURNED == "returned"
REJECTED == "rejected"

\* the place of a step below its parent: a slot and, for children, an index
Slot(name, index) == [slot |-> name, index |-> index]

Frame(path, step, pc) == [path |-> path, step |-> step, pc |-> pc]

\* transferStepAsync(step, transferFunction) up to await transferFunction(step)
transferStepAsyncCalled(path, step) == Frame(path, step, AT_TRANSFER_FUNCTION)

\* if (updatedStep.nextAction) await transferStepAsync(nextAction), else return
awaitNext(updatedStep) ==
    IF updatedStep.nextAction # Nil THEN AT_NEXT ELSE RETURNED

\* the first await after await transferFunction(step)
awaitAfterTransfer(updatedStep) ==
    IF updatedStep.type = BRANCH
    THEN IF updatedStep.onSuccessAction # Nil THEN AT_ON_SUCCESS
         ELSE IF updatedStep.onFailureAction # Nil THEN AT_ON_FAILURE
         ELSE awaitNext(updatedStep)
    ELSE IF updatedStep.type = LOOP_ON_ITEMS
    THEN IF updatedStep.firstLoopAction # Nil THEN AT_FIRST_LOOP
         ELSE awaitNext(updatedStep)
    ELSE IF updatedStep.type = ROUTER THEN AT_CHILDREN
    ELSE awaitNext(updatedStep)

\* the first await after the one at pc
awaitAfter(updatedStep, pc) ==
    IF pc = AT_ON_SUCCESS
    THEN IF updatedStep.onFailureAction # Nil THEN AT_ON_FAILURE
         ELSE awaitNext(updatedStep)
    ELSE IF pc \in {AT_ON_FAILURE, AT_FIRST_LOOP, AT_CHILDREN}
    THEN awaitNext(updatedStep)
    ELSE RETURNED

\* the calls of transferStepAsync made on the way to the await at pc, in the
\* order they are made; children.map calls it for every child that is not
\* null before Promise.all is awaited
transferStepAsyncCalls(path, updatedStep, pc) ==
    LET one(slot, optStep) ==
            <<transferStepAsyncCalled(Append(path, Slot(slot, 0)), optStep[1])>>
        ofChild(i) ==
            IF updatedStep.children[i] = Nil THEN <<>>
            ELSE <<transferStepAsyncCalled(Append(path, Slot(AT_CHILDREN, i - 1)),
                                           updatedStep.children[i][1])>>
    IN  CASE pc = AT_ON_SUCCESS -> one(AT_ON_SUCCESS, updatedStep.onSuccessAction)
          [] pc = AT_ON_FAILURE -> one(AT_ON_FAILURE, updatedStep.onFailureAction)
          [] pc = AT_FIRST_LOOP -> one(AT_FIRST_LOOP, updatedStep.firstLoopAction)
          [] pc = AT_CHILDREN ->
                flat([i \in DOMAIN updatedStep.children |-> ofChild(i)])
          [] pc = AT_NEXT -> one(AT_NEXT, updatedStep.nextAction)
          [] OTHER -> <<>>

\* the frames a frame suspended at a slot waits for
awaitedBy(frame, all) ==
    {child \in all :
        /\ Len(child.path) = Len(frame.path) + 1
        /\ SubSeq(child.path, 1, Len(frame.path)) = frame.path
        /\ child.path[Len(child.path)].slot = frame.pc}

\* updatedStep.<slot> = await ..., with the steps the awaited frames returned
assigned(frame, all) ==
    LET returnedAt(slot, index) ==
            {child.step : child \in
                {c \in awaitedBy(frame, all) :
                    c.path[Len(c.path)] = Slot(slot, index)}}
        only(steps) == IF steps = {} THEN Nil ELSE Some(CHOOSE step \in steps : TRUE)
        step == frame.step
    IN  CASE frame.pc = AT_ON_SUCCESS ->
                [step EXCEPT !.onSuccessAction = only(returnedAt(AT_ON_SUCCESS, 0))]
          [] frame.pc = AT_ON_FAILURE ->
                [step EXCEPT !.onFailureAction = only(returnedAt(AT_ON_FAILURE, 0))]
          [] frame.pc = AT_FIRST_LOOP ->
                [step EXCEPT !.firstLoopAction = only(returnedAt(AT_FIRST_LOOP, 0))]
          [] frame.pc = AT_CHILDREN ->
                [step EXCEPT !.children =
                    [i \in DOMAIN @ |-> only(returnedAt(AT_CHILDREN, i - 1))]]
          [] frame.pc = AT_NEXT ->
                [step EXCEPT !.nextAction = only(returnedAt(AT_NEXT, 0))]

pathsOf(calls) == [i \in DOMAIN calls |-> calls[i].path]

\* the rewriters a caller hands to transferFlowAsync
AsyncRewriters(flowVersion) ==
    {NormalizeRw} \cup {UpgradeRw(stepName) : stepName \in namesIn(flowVersion)}

\* transferFlowAsync(flow, transferFunction) up to its await: the clone, then
\* transferStepAsync(clonedFlow.trigger, transferFunction)
TransferFlowAsync ==
    /\ nops < MaxOps
    /\ frames = {}
    /\ \E rw \in AsyncRewriters(flow) : op' = Operation(TRANSFER_FLOW_ASYNC, rw)
    /\ frames' = {transferStepAsyncCalled(<<>>, flow.trigger)}
    /\ started' = <<<<>>>>
    /\ nops' = nops + 1
    /\ UNCHANGED <<flow, prev, err, callerFlow, arg, ret>>

\* the promise of transferFunction(step) completes; transferStepAsync goes on
\* to its next await
continued(frame, updatedStep, pc) ==
    /\ frames' = (frames \ ({frame} \cup awaitedBy(frame, frames)))
                    \cup {Frame(frame.path, updatedStep, pc)}
                    \cup Range(transferStepAsyncCalls(frame.path, updatedStep, pc))
    /\ started' = started \o pathsOf(transferStepAsyncCalls(frame.path, updatedStep, pc))
    /\ UNCHANGED <<flow, prev, op, err, callerFlow, nops, arg, ret>>

\* the frame whose await a call is waited at, if it is still there
awaiting(frame, all) == {f \in all : frame \in awaitedBy(f, all)}

\* a promise that transferStepAsync awaits is rejected: the call ends, its
\* promise rejected with the same error.  The call stays, as ended, until
\* the call that awaits it, or the caller of transferFlowAsync, takes the
\* rejection; the calls made for the other children of a router go on,
\* awaited by nobody.
rejected(frame, error) ==
    /\ frames' = (frames \ ({frame} \cup {child \in awaitedBy(frame, frames) :
                                              child.pc = REJECTED}))
                    \cup (IF frame.path = <<>> \/ awaiting(frame, frames) # {}
                          THEN {Frame(frame.path, Thrown(error), REJECTED)}
                          ELSE {})
    /\ UNCHANGED <<flow, prev, op, err, callerFlow, nops, started, arg, ret>>

TransferFunctionCompletes ==
    \E frame \in frames :
        /\ frame.pc = AT_TRANSFER_FUNCTION
        /\ LET resumed(updatedStep) ==
                   IF isThrown(updatedStep) THEN rejected(frame, updatedStep.thrown)
                   ELSE continued(frame, updatedStep, awaitAfterTransfer(updatedStep))
           IN  resumed(transferFunction(op.request, frame.step))

\* the await of a frame settles: every transferStepAsync it awaits has
\* returned, or one of them is rejected (Promise.all rejects with the first)
TransferStepAsyncResumes ==
    \E frame \in frames :
        /\ frame.pc \in {AT_ON_SUCCESS, AT_ON_FAILURE, AT_FIRST_LOOP, AT_CHILDREN, AT_NEXT}
        /\ LET thrownBy == {child \in awaitedBy(frame, frames) : child.pc = REJECTED}
               resumed(updatedStep) ==
                   continued(frame, updatedStep, awaitAfter(updatedStep, frame.pc))
           IN  IF thrownBy # {}
               THEN \E child \in thrownBy : rejected(frame, child.step.thrown)
               ELSE /\ \A child \in awaitedBy(frame, frames) : child.pc = RETURNED
                    /\ resumed(assigned(frame, frames))

\* clonedFlow.trigger = await transferStepAsync(...); return clonedFlow, or
\* the await throws and the caller of transferFlowAsync catches the error
TransferFlowAsyncReturns ==
    \E frame \in frames :
        /\ frame.path = <<>>
        /\ frame.pc \in {RETURNED, REJECTED}
        /\ IF frame.pc = REJECTED
           THEN /\ err' = frame.step.thrown
                /\ frames' = frames \ {frame}
                /\ UNCHANGED <<flow, prev>>
           ELSE /\ flow' = [flow EXCEPT !.trigger = frame.step]
                /\ prev' = flow
                /\ frames' = {}
                /\ UNCHANGED err
        /\ UNCHANGED <<op, callerFlow, nops, started, arg, ret>>

NextAsync ==
    \/ TransferFlowAsync
    \/ TransferFunctionCompletes
    \/ TransferStepAsyncResumes
    \/ TransferFlowAsyncReturns

SpecAsync == Init /\ [][NextAsync]_vars

(***************************************************************************)
(* The helper functions called on their own: the caller holds arguments    *)
(* (arg), calls the function named in them and keeps what it returns (ret, *)
(* empty until the call has returned).                                     *)
(***************************************************************************)
\* largest number of a version drawn
MaxVersionNumber == 3

VersionInputs ==
    {Version(range, major, minor, patch) :
        range \in {<<>>, <<"^">>, <<"~">>},
        major \in {0, 1},
        minor \in {2, MaxVersionNumber},
        patch \in {0, MaxVersionNumber}}

\* steps of every kind that carry the settings of a piece
UpgradeInputs ==
    {[fn |-> "upgradePiece",
      step |-> Step("step_1", type, TRUE, "S",
                    pieceSettings(pieceName, pieceVersion, Some("conn_1"), <<>>,
                                  SampleData)),
      stepName |-> stepName] :
        type \in ActionType \cup TriggerType,
        pieceName \in {GOOGLE_SHEETS, GMAIL, SLACK},
        pieceVersion \in VersionInputs,
        stepName \in {"step_1", "step_2"}}

\* every step of the seed flows, as the root of its subtree
SeedSteps == UNION {Range(getAllSteps(flowVersion.trigger)) : flowVersion \in InitialFlows}

GetAllStepsInputs == {[fn |-> "getAllSteps", root |-> step] : step \in SeedSteps}

MaxNames == 3

NameInputs == {"step_1", "step_2", "step_3", "branch_1"}

PrefixInputs == {"step", "branch"}

FindUnusedNameInputs ==
    {[fn |-> "findUnusedName", names |-> names, stepPrefix |-> stepPrefix] :
        names \in UNION {[1..n -> NameInputs] : n \in 0..MaxNames},
        stepPrefix \in PrefixInputs}

FindAvailableStepNameInputs ==
    {[fn |-> "findAvailableStepName", flowVersion |-> flowVersion, stepPrefix |-> stepPrefix] :
        flowVersion \in InitialFlows, stepPrefix \in PrefixInputs}

\* the names of the seed steps and one that no flow holds
TargetNames == {step.name : step \in SeedSteps} \cup {"step_9"}

FindPathToStepInputs ==
    {[fn |-> "findPathToStep", targetStepName |-> targetStepName, trigger |-> flowVersion.trigger] :
        flowVersion \in InitialFlows, targetStepName \in TargetNames}

PureInputs ==
    UpgradeInputs \cup GetAllStepsInputs \cup FindUnusedNameInputs
        \cup FindAvailableStepNameInputs \cup FindPathToStepInputs

InitPure ==
    /\ flow = Flow4
    /\ prev = flow
    /\ op = Operation(NO_OP, Nil)
    /\ err = NO_ERROR
    /\ callerFlow = flow
    /\ nops = 0
    /\ frames = {}
    /\ started = <<>>
    /\ arg \in PureInputs
    /\ ret = Nil

\* the call named in arg returns result
Returns(fn, result) ==
    /\ arg.fn = fn
    /\ ret = Nil
    /\ ret' = Some(result)
    /\ UNCHANGED <<flow, prev, op, err, callerFlow, nops, frames, started, arg>>

UpgradePiece == Returns("upgradePiece", upgradePiece(arg.step, arg.stepName))

GetAllSteps == Returns("getAllSteps", getAllSteps(arg.root))

FindUnusedName == Returns("findUnusedName", findUnusedName(arg.names, arg.stepPrefix))

FindAvailableStepName ==
    Returns("findAvailableStepName", findAvailableStepName(arg.flowVersion, arg.stepPrefix))

FindPathToStep == Returns("findPathToStep", findPathToStep(arg.targetStepName, arg.trigger))

NextPure ==
    \/ UpgradePiece
    \/ GetAllSteps
    \/ FindUnusedName
    \/ FindAvailableStepName
    \/ FindPathToStep

SpecPure == InitPure /\ [][NextPure]_vars

(***************************************************************************)
(* Vocabulary of the properties.                                           *)
(***************************************************************************)
pairwiseDistinct(seq) == \A i, j \in DOMAIN seq : seq[i] = seq[j] => i = j

distinctNames(flowVersion) == pairwiseDistinct(stepNames(flowVersion))

routersAligned(flowVersion) ==
    \A step \in Range(getAllSteps(flowVersion.trigger)) :
        step.type = ROUTER => Len(step.children) = Len(step.settings.branches)

allStepsValid(flowVersion) ==
    LET steps == getAllSteps(flowVersion.trigger)
    IN  \A i \in DOMAIN steps : steps[i].valid = TRUE

\* the root is a trigger and every other step an action
kindsInPlace(flowVersion) ==
    LET steps == getAllSteps(flowVersion.trigger)
    IN  \A i \in DOMAIN steps :
            IF i = 1 THEN isTrigger(steps[i].type) ELSE isAction(steps[i].type)

\* a flow version that satisfies the invariants of the data model
wellFormed(flowVersion) ==
    /\ distinctNames(flowVersion)
    /\ routersAligned(flowVersion)
    /\ kindsInPlace(flowVersion)
    /\ flowVersion.valid = allStepsValid(flowVersion)

\* an apply call was made / returned a flow version
applied == op.type \notin {NO_OP, NORMALIZE, UPDATE_FLOW_SECRETS, DUPLICATE_STEP}
succeeded == applied /\ err = NO_ERROR

\* the shape of a subtree: which step (name and kind) sits in which slot
RECURSIVE shapeOf(_)
shapeOf(optStep) ==
    IF optStep = Nil THEN <<>>
    ELSE LET s == optStep[1]
         IN  <<[name |-> s.name, type |-> s.type,
                onSuccessAction |-> shapeOf(s.onSuccessAction),
                onFailureAction |-> shapeOf(s.onFailureAction),
                firstLoopAction |-> shapeOf(s.firstLoopAction),
                children |-> [i \in DOMAIN s.children |-> shapeOf(s.children[i])],
                nextAction |-> shapeOf(s.nextAction)]>>

\* the shape of a subtree without the names: which kind sits in which slot
RECURSIVE kindShapeOf(_)
kindShapeOf(optStep) ==
    IF optStep = Nil THEN <<>>
    ELSE LET s == optStep[1]
         IN  <<[type |-> s.type,
                onSuccessAction |-> kindShapeOf(s.onSuccessAction),
                onFailureAction |-> kindShapeOf(s.onFailureAction),
                firstLoopAction |-> kindShapeOf(s.firstLoopAction),
                children |-> [i \in DOMAIN s.children |-> kindShapeOf(s.children[i])],
                nextAction |-> kindShapeOf(s.nextAction)]>>

withoutNext(step) == [step EXCEPT !.nextAction = Nil]

\* a step with its next and every structural child removed; a router keeps
\* its number of branches
strippedOf(step) ==
    [step EXCEPT !.nextAction = Nil, !.onSuccessAction = Nil, !.onFailureAction = Nil,
                 !.firstLoopAction = Nil,
                 !.children = [i \in DOMAIN step.children |-> Nil]]

hasNoDescendants(step) == step = strippedOf(step)

(***************************************************************************)
(* Properties.                                                             *)
(***************************************************************************)

\* C1: apply leaves the caller's flow version as it was before the call,
\* when it returns a flow version and when it throws.
C1_InputUnchanged == applied => callerFlow = prev

\* a DUPLICATE_BRANCH call, which splices the router of its working copy in
\* place, has returned a changed flow version
C1_Witness ==
    /\ op.type = DUPLICATE_BRANCH
    /\ err = NO_ERROR
    /\ flow # prev
    /\ callerFlow = prev

\* C2: from a flow version with pairwise distinct step names, every apply
\* that succeeds returns a flow version with pairwise distinct step names.
C2_NamesStayDistinct ==
    (succeeded /\ distinctNames(prev)) => distinctNames(flow)

\* C3: from a flow version whose routers have as many children as branches,
\* every apply that succeeds returns a flow version whose routers do.
C3_RoutersStayAligned ==
    (succeeded /\ routersAligned(prev)) => routersAligned(flow)

\* C4: the flow version apply returns has valid = true exactly when every
\* step reachable from its trigger has valid = true.
C4_ValidityLaw ==
    succeeded => ((flow.valid = TRUE) <=> allStepsValid(flow))

\* apply has returned from a call on a flow version whose valid flag was stale
C4_Witness ==
    /\ succeeded
    /\ prev.valid # allStepsValid(prev)
    /\ flow.valid # prev.valid
    /\ Len(getAllSteps(flow.trigger)) > 1

\* the flow version getImportOperations(R) is replayed on: R added after a
\* trigger the way duplicateStep adds the step it imports, with the children
\* of a router emptied (createAction builds the step and computes its valid)
importBase(R) ==
    addAction(FlowVersion("import", DRAFT,
                          Step("import_trigger", TRIGGER_EMPTY, FALSE, "Select Trigger",
                               PlainSettings),
                          FALSE),
              AddActionRequest("import_trigger", R, AFTER, NoIndex, UNDEFINED),
              IF R.type = ROUTER
              THEN Some([i \in DOMAIN R.children |-> Nil])
              ELSE Nil).flow

\* the operations of getImportOperations(R) applied in the returned order
importReplay(R) == replay(Ok(importBase(R)), getImportOperations(Some(R)))

subtreeNamesDistinct(R) == pairwiseDistinct(namesOf(traverseInternal(Some(R))))

onlyStepKinds(R) ==
    \A step \in Range(traverseInternal(Some(R))) : step.type \in ActionType \cup TriggerType

\* the flow version the replay starts from contains R with its next and its
\* structural children stripped (it does for an action; createAction builds no
\* trigger, so for a trigger R it holds a step without name or type instead)
holdsStripped(R) ==
    shapeOf(getStep(importBase(R), R.name)) = shapeOf(Some(strippedOf(R)))

\* C5: for every step R whose subtree has distinct names, replaying
\* getImportOperations(R) on a flow version that holds R stripped rebuilds a
\* subtree rooted at R of the same shape as R.
C5_ImportReplayRebuilds ==
    \A R \in Range(getAllSteps(flow.trigger)) :
        (subtreeNamesDistinct(R) /\ onlyStepKinds(R) /\ holdsStripped(R)) =>
            /\ importReplay(R).err = NO_ERROR
            /\ shapeOf(getStep(importReplay(R).flow, R.name)) = shapeOf(Some(R))

\* the ADD_ACTION call that C6 is about has returned
addedAfterParent ==
    /\ op.type = ADD_ACTION
    /\ err = NO_ERROR
    /\ wellFormed(prev)
    /\ op.request.parentStep \in namesIn(prev)
    /\ op.request.stepLocationRelativeToParent = AFTER
    /\ isAction(op.request.action.type)
    /\ hasNoDescendants(op.request.action)
    /\ op.request.action.name \notin namesIn(prev)

\* C6: adding an action without descendants and with an unused name AFTER a
\* step of a well-formed flow version f, then deleting that action, gives f.
C6_DeleteUndoesAdd ==
    addedAfterParent =>
        LET back == apply(flow, Operation(DELETE_ACTION,
                                          [name |-> op.request.action.name]))
        IN  back.err = NO_ERROR /\ back.flow = prev

\* an action was added after a step that had a successor
C6_Witness ==
    /\ addedAfterParent
    /\ flow # prev
    /\ getStep(prev, op.request.parentStep)[1].nextAction # Nil

\* the DUPLICATE_ACTION call on an action of a well-formed flow has returned
duplicatedAction ==
    /\ op.type = DUPLICATE_ACTION
    /\ err = NO_ERROR
    /\ wellFormed(prev)
    /\ isAction(getStep(prev, op.request.stepName)[1].type)

\* the source of the last duplication as it was, and its copy in the result
duplicateSource == withoutNext(getStep(prev, op.request.stepName)[1])
duplicateCopy == getStep(flow, op.request.stepName)[1].nextAction

\* C7: DUPLICATE_ACTION{S} inserts after S a copy with the tree shape of S's
\* subtree (S.next cleared): the same kinds in the same slots, the same chain
\* order, and for every router the same number of branches.
C7_DuplicateKeepsShape ==
    duplicatedAction =>
        /\ duplicateCopy # Nil
        /\ kindShapeOf(Some(withoutNext(duplicateCopy[1])))
             = kindShapeOf(Some(duplicateSource))

\* the numbers K >= 1 whose step_K is not in used, up to bound
unusedNumbers(used, bound) ==
    {k \in 1..bound : numberedName("step", k) \notin used}

\* the n-th smallest of them
nthUnused(used, bound, n) ==
    CHOOSE k \in unusedNumbers(used, bound) :
        Cardinality({j \in unusedNumbers(used, bound) : j < k}) = n - 1

\* C8: in DUPLICATE_ACTION every step of the copy is named step_K, K being
\* the smallest positive integer whose step_K is unused at that point; the
\* names of the copy differ from one another and from the names of the
\* input flow version.
C8_CopyNamesFresh ==
    duplicatedAction =>
        /\ duplicateCopy # Nil
        /\ LET copyNames == namesOf(traverseInternal(Some(withoutNext(duplicateCopy[1]))))
               used == namesIn(prev)
               bound == Cardinality(used) + Len(copyNames)
           IN  /\ Len(copyNames) = Len(traverseInternal(Some(duplicateSource)))
               /\ \A i \in DOMAIN copyNames :
                     copyNames[i] = numberedName("step", nthUnused(used, bound, i))
               /\ pairwiseDistinct(copyNames)
               /\ Range(copyNames) \cap used = {}

\* a subtree of at least three steps was duplicated in a flow version whose
\* used numbers leave a gap
C8_Witness ==
    /\ duplicatedAction
    /\ Len(traverseInternal(Some(duplicateSource))) >= 3
    /\ "step_5" \notin namesIn(prev)
    /\ "step_6" \in namesIn(prev)

\* the slot of parent that a request with this location and branch index names
requestedSlot(parent, location, branchIndex) ==
    IF parent.type = LOOP_ON_ITEMS /\ location = INSIDE_LOOP THEN parent.firstLoopAction
    ELSE IF parent.type = BRANCH /\ location = INSIDE_TRUE_BRANCH THEN parent.onSuccessAction
    ELSE IF parent.type = BRANCH /\ location = INSIDE_FALSE_BRANCH THEN parent.onFailureAction
    ELSE IF parent.type = ROUTER /\ location = INSIDE_BRANCH
    THEN getAt(parent.children, branchIndex)
    ELSE parent.nextAction

\* C9: a MOVE_ACTION that returns without error yields a flow version with
\* the step names of the input (none lost, none twice), and the moved step
\* at the head of the requested slot of the destination.
C9_MoveKeepsSteps ==
    (op.type = MOVE_ACTION /\ err = NO_ERROR /\ wellFormed(prev)) =>
        /\ namesIn(flow) = namesIn(prev)
        /\ distinctNames(flow)
        /\ LET destination == getStep(flow, op.request.newParentStep)
           IN  /\ destination # Nil
               /\ nameIs(requestedSlot(destination[1],
                                       op.request.stepLocationRelativeToNewParent,
                                       op.request.branchIndex),
                         op.request.name)

\* C10: normalize(normalize(f)) = normalize(f).
C10_NormalizeIdempotent ==
    (op.type = NORMALIZE /\ err = NO_ERROR) => normalize(flow) = flow

\* normalize has returned a flow version in which it pinned a piece version,
\* emptied a credential and reset sample data
C10_Witness ==
    /\ op.type = NORMALIZE
    /\ err = NO_ERROR
    /\ \E step \in Range(getAllSteps(flow.trigger)) :
          /\ step.type = PIECE
          /\ step.settings.pieceVersion.range = <<"~">>
          /\ getStep(prev, step.name)[1].settings.pieceVersion.range = <<>>
          /\ step.settings.input.auth = Some("")
          /\ getStep(prev, step.name)[1].settings.input.auth # Some("")
          /\ getStep(prev, step.name)[1].settings.inputUiInfo # DEFAULT_SAMPLE_DATA_SETTINGS

\* the piece steps of a flow version
pieceSteps(flowVersion) ==
    {step \in Range(getAllSteps(flowVersion.trigger)) :
        step.type \in {PIECE, TRIGGER_PIECE}}

\* legacy, or starting with a range operator
versionPinned(step) ==
    \/ isLegacyApp(step.settings.pieceName, step.settings.pieceVersion)
    \/ startsWith(step.settings.pieceVersion, "^")
    \/ startsWith(step.settings.pieceVersion, "~")

\* C11: in normalize(f) every piece step has settings.input.auth = "",
\* whether or not it had an auth value in f, and a piece version that is
\* legacy or starts with ^ or ~.
C11_NormalizeWipesAuth ==
    (op.type = NORMALIZE /\ err = NO_ERROR) =>
        \A step \in pieceSteps(flow) :
            /\ step.settings.input.auth = Some("")
            /\ versionPinned(step)

\* the places of the steps below optStep in the order of traverseInternal:
\* the step, its structural children, then its next
RECURSIVE traversalPaths(_, _)
traversalPaths(optStep, path) ==
    IF optStep = Nil THEN <<>>
    ELSE LET s == optStep[1]
             under(slot, index, child) ==
                 traversalPaths(child, Append(path, Slot(slot, index)))
         IN  <<path>>
             \o (IF s.type = BRANCH
                 THEN under(AT_ON_SUCCESS, 0, s.onSuccessAction)
                      \o under(AT_ON_FAILURE, 0, s.onFailureAction)
                 ELSE <<>>)
             \o (IF s.type = ROUTER
                 THEN flat([i \in DOMAIN s.children |->
                               under(AT_CHILDREN, i - 1, s.children[i])])
                 ELSE <<>>)
             \o (IF s.type = LOOP_ON_ITEMS
                 THEN under(AT_FIRST_LOOP, 0, s.firstLoopAction)
                 ELSE <<>>)
             \o under(AT_NEXT, 0, s.nextAction)

isPrefix(short, long) ==
    Len(short) <= Len(long) /\ short = SubSeq(long, 1, Len(short))

\* the rewriter invocations whose promise has not completed
pendingInvocations == {frame \in frames : frame.pc = AT_TRANSFER_FUNCTION}

\* C12: while transferFlowAsync runs, the rewriter is invoked on the steps one
\* at a time in depth-first order (a step, its structural children, then its
\* next): at most one invocation is awaiting its promise, and the places
\* invoked so far are an initial part of the depth-first order of the flow.
C12_OneAtATimeInOrder ==
    frames # {} =>
        /\ Cardinality(pendingInvocations) <= 1
        /\ isPrefix(started, traversalPaths(Some(flow.trigger), <<>>))

\* what transferFlowAsync returns is what transferFlow returns
AsyncAgreesWithSync ==
    (op.type = TRANSFER_FLOW_ASYNC /\ frames = {} ) =>
        flow = transferFlow(prev, op.request)

\* every step is invoked exactly once
AsyncInvokesEveryStepOnce ==
    (op.type = TRANSFER_FLOW_ASYNC /\ frames = {}) =>
        /\ Len(started) = Len(getAllSteps(prev.trigger))
        /\ Range(started) = Range(traversalPaths(Some(prev.trigger), <<>>))

\* every step below the root carries a name
actionsNamed(flowVersion) ==
    LET steps == getAllSteps(flowVersion.trigger)
    IN  \A i \in DOMAIN steps : i > 1 => steps[i].name # NO_NAME

\* the step a request carries is of the kind its operation asks for
requestWellTyped ==
    /\ op.type = ADD_ACTION => isAction(op.request.action.type)
    /\ op.type = UPDATE_ACTION => isAction(op.request.type)
    /\ op.type = UPDATE_TRIGGER => isTrigger(op.request.type)

\* C13: after a successful apply call on a flow version whose root is a
\* trigger and whose other steps are actions, the root is still of a trigger
\* kind and every other step is a named step of one of the five action kinds,
\* whatever step name the operation carries.
C13_KindsStayInPlace ==
    (succeeded /\ kindsInPlace(prev) /\ requestWellTyped) =>
        /\ kindsInPlace(flow)
        /\ actionsNamed(flow)

\* the step a MOVE_ACTION request names as its source / as its destination,
\* in the flow version the call was made on
moveSource == getStep(prev, op.request.name)
moveDestination == getStep(prev, op.request.newParentStep)

\* C14: MOVE_ACTION throws FLOW_OPERATION_INVALID and returns no flow version
\* whenever the source step is missing, the source is the trigger, or the
\* destination step is missing; nothing has been deleted or inserted.
C14_MoveRejectsBadEnds ==
    (op.type = MOVE_ACTION
        /\ (\/ moveSource = Nil
            \/ moveSource = Some(prev.trigger)
            \/ moveDestination = Nil)) =>
        /\ err = FLOW_OPERATION_INVALID
        /\ flow = prev
        /\ callerFlow = prev

\* a MOVE_ACTION whose source is the trigger and whose destination exists has
\* been rejected
C14_Witness ==
    /\ op.type = MOVE_ACTION
    /\ op.request.name = prev.trigger.name
    /\ moveDestination # Nil
    /\ Len(getAllSteps(prev.trigger)) > 1
    /\ err = FLOW_OPERATION_INVALID
    /\ flow = prev

\* the locations a parent of a kind has a slot for
locationsOf(parentType) ==
    CASE parentType = LOOP_ON_ITEMS -> {INSIDE_LOOP, AFTER}
      [] parentType = BRANCH -> {INSIDE_TRUE_BRANCH, INSIDE_FALSE_BRANCH, AFTER}
      [] parentType = ROUTER -> {INSIDE_BRANCH, AFTER}
      [] OTHER -> {AFTER}

\* a location that does not fit the kind of the parent, or INSIDE_BRANCH
\* without a branch index
incompatibleLocation(parentType, request) ==
    /\ request.stepLocationRelativeToParent \in StepLocationRelativeToParent
    /\ \/ request.stepLocationRelativeToParent \notin locationsOf(parentType)
       \/ /\ request.stepLocationRelativeToParent = INSIDE_BRANCH
          /\ request.branchIndex = NoIndex

\* the step an ADD_ACTION request names as its parent, in the flow version the
\* call was made on
addParent == getStep(prev, op.request.parentStep)

\* C15: an ADD_ACTION whose location does not fit the kind of its parent
\* throws FLOW_OPERATION_INVALID and inserts nothing, for every kind of parent.
C15_AddRejectsWrongLocation ==
    (op.type = ADD_ACTION
        /\ distinctNames(prev)
        /\ isAction(op.request.action.type)
        /\ op.request.action.name \notin namesIn(prev)
        /\ addParent # Nil
        /\ incompatibleLocation(addParent[1].type, op.request)) =>
        /\ err = FLOW_OPERATION_INVALID
        /\ flow = prev

\* a DUPLICATE_ACTION / DUPLICATE_BRANCH call named a step that the flow
\* version it was made on does not hold
duplicateOfMissing ==
    /\ op.type \in {DUPLICATE_ACTION, DUPLICATE_BRANCH}
    /\ getStep(prev, op.request.stepName) = Nil

\* C16: DUPLICATE_ACTION naming a missing step, and DUPLICATE_BRANCH naming a
\* missing router, fail with FLOW_OPERATION_INVALID and with no other kind of
\* failure.
C16_DuplicateOfMissingIsInvalid ==
    duplicateOfMissing => err = FLOW_OPERATION_INVALID

\* the subtree below optStep with the step named stepName taken out of the
\* slot that holds it: the slot holds that step's next instead, and every
\* other step stays in its slot
RECURSIVE unlinked(_, _)
unlinked(optStep, stepName) ==
    IF optStep = Nil THEN Nil
    ELSE IF optStep[1].name = stepName THEN unlinked(optStep[1].nextAction, stepName)
    ELSE Some([optStep[1] EXCEPT
                  !.nextAction = unlinked(@, stepName),
                  !.onSuccessAction = unlinked(@, stepName),
                  !.onFailureAction = unlinked(@, stepName),
                  !.firstLoopAction = unlinked(@, stepName),
                  !.children = [i \in DOMAIN @ |-> unlinked(@[i], stepName)]])

\* the step a DELETE_ACTION request names, in the flow version the call was
\* made on
deletedStep == getStep(prev, op.request.name)

\* a DELETE_ACTION call named an action of a flow version with distinct names
deletedAnAction ==
    /\ op.type = DELETE_ACTION
    /\ distinctNames(prev)
    /\ deletedStep # Nil
    /\ deletedStep # Some(prev.trigger)

\* C17: deleting an action N of a flow version with distinct names succeeds;
\* the slot that held N holds N's former next (or nothing), N and the steps
\* under its structural children are gone, and every other step is in the
\* slot and chain position it had.
C17_DeleteUnlinksSubtree ==
    deletedAnAction =>
        /\ err = NO_ERROR
        /\ Some(flow.trigger) = unlinked(Some(prev.trigger), op.request.name)
        /\ namesIn(flow) =
             namesIn(prev) \ Range([i \in DOMAIN traverseInternal(Some(withoutNext(deletedStep[1])))
                                      |-> traverseInternal(Some(withoutNext(deletedStep[1])))[i].name])

\* an action with structural children and a next has been deleted from inside
\* a structural slot
C17_Witness ==
    /\ deletedAnAction
    /\ err = NO_ERROR
    /\ deletedStep[1].nextAction # Nil
    /\ Len(traverseInternal(Some(withoutNext(deletedStep[1])))) > 1
    /\ \E parent \in Range(getAllSteps(prev.trigger)) :
           parent.onSuccessAction = deletedStep
    /\ deletedStep[1].nextAction[1].name \in namesIn(flow)

\* a location the parent has a slot for; INSIDE_BRANCH names a branch the
\* router has
validLocation(parent, request) ==
    /\ request.stepLocationRelativeToParent \in locationsOf(parent.type)
    /\ request.stepLocationRelativeToParent = INSIDE_BRANCH =>
          /\ request.branchIndex # NoIndex
          /\ request.branchIndex < Len(parent.children)

\* an ADD_ACTION call named a parent of the flow version and a location that
\* parent has; the request carries an action under a name the flow version
\* does not use
addedAtValidLocation ==
    /\ op.type = ADD_ACTION
    /\ distinctNames(prev)
    /\ isAction(op.request.action.type)
    /\ op.request.action.name \notin namesIn(prev)
    /\ addParent # Nil
    /\ validLocation(addParent[1], op.request)

\* the step of the returned flow version that carries the name of the request
addedStep == getStep(flow, op.request.action.name)

\* C18: an ADD_ACTION with a parent that is present and a valid location
\* succeeds; the new step is the head of the targeted slot and its next is
\* the former head of that slot; exactly one step is added, its structural
\* slots are empty whatever descendants the request carries, and every other
\* step is unchanged.
C18_AddPushesOntoSlot ==
    addedAtValidLocation =>
        /\ err = NO_ERROR
        /\ addedStep # Nil
        /\ requestedSlot(getStep(flow, op.request.parentStep)[1],
                         op.request.stepLocationRelativeToParent,
                         op.request.branchIndex) = addedStep
        /\ addedStep[1].nextAction =
             requestedSlot(addParent[1], op.request.stepLocationRelativeToParent,
                           op.request.branchIndex)
        /\ hasNoDescendants(withoutNext(addedStep[1]))
        /\ Len(getAllSteps(flow.trigger)) = Len(getAllSteps(prev.trigger)) + 1
        /\ unlinked(Some(flow.trigger), op.request.action.name) = Some(prev.trigger)

\* a request that carries descendants has been added inside a slot that held
\* a step
C18_Witness ==
    /\ addedAtValidLocation
    /\ err = NO_ERROR
    /\ ~hasNoDescendants(op.request.action)
    /\ op.request.stepLocationRelativeToParent # AFTER
    /\ addedStep # Nil
    /\ addedStep[1].nextAction # Nil

\* the subtree below optStep with the step named stepName replaced, where it
\* sits, by the step by
RECURSIVE substituted(_, _, _)
substituted(optStep, stepName, by) ==
    IF optStep = Nil THEN Nil
    ELSE IF optStep[1].name = stepName THEN Some(by)
    ELSE Some([optStep[1] EXCEPT
                  !.nextAction = substituted(@, stepName, by),
                  !.onSuccessAction = substituted(@, stepName, by),
                  !.onFailureAction = substituted(@, stepName, by),
                  !.firstLoopAction = substituted(@, stepName, by),
                  !.children = [i \in DOMAIN @ |-> substituted(@[i], stepName, by)]])

\* the structural slots of a step
structuralSlots(step) ==
    [onSuccessAction |-> step.onSuccessAction, onFailureAction |-> step.onFailureAction,
     firstLoopAction |-> step.firstLoopAction, children |-> step.children]

\* the structural slots of a new step of a kind: all empty, two empty
\* branches for a router
emptySlots(type) ==
    [onSuccessAction |-> Nil, onFailureAction |-> Nil, firstLoopAction |-> Nil,
     children |-> IF type = ROUTER THEN <<Nil, Nil>> ELSE <<>>]

\* the step an UPDATE_ACTION request names, before and after the call
updatedFrom == getStep(prev, op.request.name)
updatedTo == getStep(flow, op.request.name)

\* an UPDATE_ACTION call named an action of a flow version with distinct
\* names (its request carries a name) and carried a request of an action kind
updatedAnAction ==
    /\ op.type = UPDATE_ACTION
    /\ op.request.name # NO_NAME
    /\ distinctNames(prev)
    /\ isAction(op.request.type)
    /\ updatedFrom # Nil
    /\ updatedFrom # Some(prev.trigger)

\* C19: UPDATE_ACTION replaces the named action N, wherever it sits, by an
\* action of the requested kind that keeps N's next; it keeps N's structural
\* children when the kind is the same and has empty structural slots (two
\* empty branches for a router) when the kind differs; its valid flag is the
\* request's valid bit and the schema check.
C19_UpdateReplacesInPlace ==
    updatedAnAction =>
        /\ err = NO_ERROR
        /\ updatedTo # Nil
        /\ Some(flow.trigger) =
             substituted(Some(prev.trigger), op.request.name, updatedTo[1])
        /\ updatedTo[1].type = op.request.type
        /\ updatedTo[1].displayName = op.request.displayName
        /\ updatedTo[1].nextAction = updatedFrom[1].nextAction
        /\ structuralSlots(updatedTo[1]) =
             IF op.request.type = updatedFrom[1].type
             THEN structuralSlots(updatedFrom[1])
             ELSE emptySlots(op.request.type)
        /\ updatedTo[1].valid = (op.request.valid /\ schemaCheck(updatedTo[1]))

\* an action with structural children and a next has been updated to a router
C19_Witness ==
    /\ updatedAnAction
    /\ err = NO_ERROR
    /\ op.request.type = ROUTER
    /\ updatedFrom[1].type # ROUTER
    /\ ~hasNoDescendants(withoutNext(updatedFrom[1]))
    /\ updatedFrom[1].nextAction # Nil
    /\ updatedTo # Nil
    /\ updatedTo[1].children = <<Nil, Nil>>

\* an action has been updated to its own kind and has kept the structural
\* children it had
UpdateSameKindSeen ==
    /\ updatedAnAction
    /\ err = NO_ERROR
    /\ op.request.type = updatedFrom[1].type
    /\ ~hasNoDescendants(withoutNext(updatedFrom[1]))
    /\ ~hasNoDescendants(op.request)

\* an UPDATE_TRIGGER call carried a request of a trigger kind
updatedTheTrigger ==
    /\ op.type = UPDATE_TRIGGER
    /\ isTrigger(op.request.type)

\* a step's own fields, its piece version aside
asideFromVersion(step) ==
    [strippedOf(step) EXCEPT !.settings.pieceVersion = NoVersion]

\* the steps of the two chains agree one by one; a step that carries
\* stepName may differ in its piece version
sameStepsButVersionOf(steps, oldSteps, stepName) ==
    /\ Len(steps) = Len(oldSteps)
    /\ \A i \in DOMAIN steps :
           IF oldSteps[i].name = stepName
           THEN asideFromVersion(steps[i]) = asideFromVersion(oldSteps[i])
           ELSE strippedOf(steps[i]) = strippedOf(oldSteps[i])

\* C20: UPDATE_TRIGGER keeps the trigger at the root under the name it had in
\* the input, whatever name the request carries, and with the same next
\* chain; kind, display name and settings come from the request (the piece
\* version of the settings as the upgrade of the trigger left it).
C20_UpdateTriggerKeepsNext ==
    updatedTheTrigger =>
        /\ err = NO_ERROR
        /\ flow.trigger.name = prev.trigger.name
        /\ flow.trigger.nextAction = prev.trigger.nextAction
        /\ flow.trigger.type = op.request.type
        /\ flow.trigger.displayName = op.request.displayName
        /\ [flow.trigger.settings EXCEPT !.pieceVersion = NoVersion]
             = [op.request.settings EXCEPT !.pieceVersion = NoVersion]

\* what UPDATE_TRIGGER does keep: the name of the trigger, and every step of
\* the next chain in its slot and unchanged, except that a step carrying the
\* name of the request (the trigger included) may have had its piece version
\* upgraded
UpdateTriggerKeepsUpToUpgrade ==
    updatedTheTrigger =>
        /\ err = NO_ERROR
        /\ flow.trigger.name = prev.trigger.name
        /\ flow.trigger.type = op.request.type
        /\ flow.trigger.displayName = op.request.displayName
        /\ [flow.trigger.settings EXCEPT !.pieceVersion = NoVersion]
             = [op.request.settings EXCEPT !.pieceVersion = NoVersion]
        /\ prev.trigger.name # op.request.name =>
             flow.trigger.settings = op.request.settings
        /\ shapeOf(flow.trigger.nextAction) = shapeOf(prev.trigger.nextAction)
        /\ sameStepsButVersionOf(traverseInternal(flow.trigger.nextAction),
                                 traverseInternal(prev.trigger.nextAction),
                                 op.request.name)

\* the router a branch request names, before and after the call
branchRouter == getStep(prev, op.request.stepName)
branchRouterAfter == getStep(flow, op.request.stepName)

\* a branch request of a kind named a router of a flow version with distinct
\* names
namedARouter(type) ==
    /\ op.type = type
    /\ distinctNames(prev)
    /\ branchRouter # Nil
    /\ branchRouter[1].type = ROUTER

\* the router is the next of some step
reachedThroughNext(router) ==
    \E parent \in Range(getAllSteps(prev.trigger)) : parent.nextAction = router

\* C21: ADD_BRANCH on a router R, wherever R sits, gives R one more entry in
\* children and in settings.branches; the entry at the index is null in
\* children and a fresh CONDITION branch in settings.branches, and the
\* entries R had keep their relative order.
C21_AddBranchEverywhere ==
    (namedARouter(ADD_BRANCH)
        /\ op.request.branchIndex <= Len(branchRouter[1].children)
        /\ routersAligned(prev)) =>
        /\ err = NO_ERROR
        /\ branchRouterAfter # Nil
        /\ Len(branchRouterAfter[1].children) = Len(branchRouter[1].children) + 1
        /\ Len(branchRouterAfter[1].settings.branches)
             = Len(branchRouter[1].settings.branches) + 1
        /\ getAt(branchRouterAfter[1].children, op.request.branchIndex) = Nil
        /\ branchRouterAfter[1].settings.branches[op.request.branchIndex + 1].branchType
             = "CONDITION"
        /\ spliceDelete(branchRouterAfter[1].children, op.request.branchIndex)
             = branchRouter[1].children
        /\ spliceDelete(branchRouterAfter[1].settings.branches, op.request.branchIndex)
             = branchRouter[1].settings.branches

\* what ADD_BRANCH does on a router that is the next of a step
AddBranchAfterNext ==
    (namedARouter(ADD_BRANCH) /\ reachedThroughNext(branchRouter)) =>
        C21_AddBranchEverywhere

\* C22: the branch ADD_BRANCH inserts into a router that has len branches is
\* named "Branch <len + 1>".
C22_NewBranchNumbered ==
    (namedARouter(ADD_BRANCH)
        /\ reachedThroughNext(branchRouter)
        /\ op.request.branchIndex <= Len(branchRouter[1].settings.branches)) =>
        /\ err = NO_ERROR
        /\ branchRouterAfter # Nil
        /\ Len(branchRouterAfter[1].settings.branches)
             = Len(branchRouter[1].settings.branches) + 1
        /\ branchRouterAfter[1].settings.branches[op.request.branchIndex + 1].branchName
             = "Branch " \o ToString(Len(branchRouter[1].settings.branches) + 1)

\* the name the inserted branch does get: "Branch <len>"
NewBranchNumberedByLength ==
    (namedARouter(ADD_BRANCH)
        /\ reachedThroughNext(branchRouter)
        /\ op.request.branchIndex <= Len(branchRouter[1].settings.branches)) =>
        branchRouterAfter[1].settings.branches[op.request.branchIndex + 1].branchName
            = "Branch " \o ToString(Len(branchRouter[1].settings.branches))

\* the router with the entry at an index taken out of children and branches
withoutBranch(router, index) ==
    [router EXCEPT !.children = spliceDelete(@, index),
                   !.settings.branches = spliceDelete(@, index)]

\* C23: DELETE_BRANCH on a router R, wherever R sits, removes the entry at the
\* index from R.children and R.settings.branches: both are one shorter and
\* stay aligned, the steps of the removed branch are gone, and every other
\* step is unchanged.
C23_DeleteBranchEverywhere ==
    (namedARouter(DELETE_BRANCH)
        /\ routersAligned(prev)
        /\ op.request.branchIndex < Len(branchRouter[1].children)) =>
        /\ err = NO_ERROR
        /\ branchRouterAfter # Nil
        /\ Len(branchRouterAfter[1].children) = Len(branchRouter[1].children) - 1
        /\ Len(branchRouterAfter[1].settings.branches) = Len(branchRouterAfter[1].children)
        /\ Some(flow.trigger) =
             substituted(Some(prev.trigger), op.request.stepName,
                         withoutBranch(branchRouter[1], op.request.branchIndex))
        /\ \A step \in Range(traverseInternal(
                                getAt(branchRouter[1].children, op.request.branchIndex))) :
               step.name \notin namesIn(flow)

\* what DELETE_BRANCH does on a router that is the next of a step
DeleteBranchAfterNext ==
    (namedARouter(DELETE_BRANCH) /\ reachedThroughNext(branchRouter)) =>
        C23_DeleteBranchEverywhere

\* the names of the steps below an optional step
namesBelow(optStep) ==
    {step.name : step \in Range(traverseInternal(optStep))}

\* the position DUPLICATE_BRANCH puts the new pair at: before the last branch
copyIndex == Len(branchRouter[1].children) - 1

\* a DUPLICATE_BRANCH call named a router and a branch the router has
duplicatedABranch ==
    /\ namedARouter(DUPLICATE_BRANCH)
    /\ routersAligned(prev)
    /\ op.request.branchIndex < Len(branchRouter[1].children)

\* C24: DUPLICATE_BRANCH on branch i of a router with n branches yields n + 1
\* children and branches; the new pair sits at position n - 1, before the
\* last branch; its branch is branch i with ' Copy' added to the name; its
\* child chain has the shape of children[i] under fresh names (null when
\* children[i] is empty); the original branches keep content and order.
C24_DuplicateBranchBeforeLast ==
    duplicatedABranch =>
        /\ err = NO_ERROR
        /\ branchRouterAfter # Nil
        /\ Len(branchRouterAfter[1].children) = Len(branchRouter[1].children) + 1
        /\ Len(branchRouterAfter[1].settings.branches)
             = Len(branchRouter[1].settings.branches) + 1
        /\ branchRouterAfter[1].settings.branches[copyIndex + 1] =
             [branchRouter[1].settings.branches[op.request.branchIndex + 1]
                 EXCEPT !.branchName = @ \o " Copy"]
        /\ spliceDelete(branchRouterAfter[1].settings.branches, copyIndex)
             = branchRouter[1].settings.branches
        /\ spliceDelete(branchRouterAfter[1].children, copyIndex)
             = branchRouter[1].children
        /\ kindShapeOf(getAt(branchRouterAfter[1].children, copyIndex))
             = kindShapeOf(getAt(branchRouter[1].children, op.request.branchIndex))
        /\ namesBelow(getAt(branchRouterAfter[1].children, copyIndex))
             \cap namesIn(prev) = {}
        /\ distinctNames(flow)

\* DUPLICATE_BRANCH of a branch whose chain holds no router
DuplicateBranchWithoutRouters ==
    (duplicatedABranch
        /\ \A step \in Range(traverseInternal(
                                getAt(branchRouter[1].children, op.request.branchIndex))) :
               step.type # ROUTER) =>
        C24_DuplicateBranchBeforeLast

\* the call of a helper function has returned
returned(fn) == arg.fn = fn /\ ret # Nil

\* google-sheets or gmail below 0.3.0, a range operator aside
legacyPiece(settings) ==
    /\ settings.pieceName \in {GOOGLE_SHEETS, GMAIL}
    /\ settings.pieceVersion.major = 0
    /\ settings.pieceVersion.minor < 3

\* the piece version upgradePiece is to leave on a piece step
upgradedVersion(settings) ==
    IF legacyPiece(settings) THEN settings.pieceVersion
    ELSE IF settings.pieceVersion.range # <<>> THEN settings.pieceVersion
    ELSE IF settings.pieceVersion.major < 1
    THEN [settings.pieceVersion EXCEPT !.range = <<"~">>]
    ELSE [settings.pieceVersion EXCEPT !.range = <<"^">>]

\* C25: upgradePiece applied to a piece step under its name returns it
\* unchanged when the piece is legacy or the version starts with ^ or ~, with
\* '~' before a version below 1.0.0 and with '^' before any other version;
\* it returns a step that is not a piece step unchanged.
C25_UpgradeByVersion ==
    (returned("upgradePiece") /\ arg.stepName = arg.step.name) =>
        ret[1] = IF arg.step.type \in {PIECE, TRIGGER_PIECE}
                 THEN [arg.step EXCEPT !.settings.pieceVersion =
                                           upgradedVersion(arg.step.settings)]
                 ELSE arg.step

\* a piece action that is not legacy, at a plain version below 1.0.0, has
\* come back with '~' before its version
C25_Witness ==
    /\ returned("upgradePiece")
    /\ arg.stepName = arg.step.name
    /\ arg.step.type = PIECE
    /\ arg.step.settings.pieceName = SLACK
    /\ arg.step.settings.pieceVersion = Version(<<>>, 0, 2, 0)
    /\ ret[1].settings.pieceVersion = Version(<<"~">>, 0, 2, 0)

\* the steps of the source of the last duplication and of its copy, in the
\* order of the traversal
sourceSteps == traverseInternal(Some(duplicateSource))
copySteps == traverseInternal(Some(withoutNext(duplicateCopy[1])))

\* the token of a copied input that stands for token: a whole identifier
\* inside a {{...}} span that is the old name of a copied step carries the
\* new name of that step, every other token is as it was
renamedToken(token) ==
    IF token.tpl /\ \E j \in DOMAIN sourceSteps : sourceSteps[j].name = token.id
    THEN [token EXCEPT !.id =
             copySteps[CHOOSE j \in DOMAIN sourceSteps : sourceSteps[j].name = token.id].name]
    ELSE token

\* C26: in DUPLICATE_ACTION, in the input of every copied step each old name
\* of a copied step that stands as a whole identifier inside a {{...}} span
\* is replaced by the new name of that step; text outside the spans,
\* identifiers that only contain an old name and references to steps outside
\* the copy are as they were; the inputs of the original steps are unchanged.
C26_CopyRenamesReferences ==
    duplicatedAction =>
        /\ duplicateCopy # Nil
        /\ Len(copySteps) = Len(sourceSteps)
        /\ \A i \in DOMAIN sourceSteps :
               /\ i \in DOMAIN copySteps
               /\ copySteps[i].settings.input.text =
                    [k \in DOMAIN sourceSteps[i].settings.input.text |->
                        renamedToken(sourceSteps[i].settings.input.text[k])]
               /\ copySteps[i].settings.input.auth = sourceSteps[i].settings.input.auth
        /\ \A step \in Range(getAllSteps(prev.trigger)) :
               /\ getStep(flow, step.name) # Nil
               /\ getStep(flow, step.name)[1].settings.input = step.settings.input

\* a copy has been made in which a reference to a copied step was renamed,
\* while plain text spelling that name and a reference to a longer name were
\* left alone
C26_Witness ==
    /\ duplicatedAction
    /\ duplicateCopy # Nil
    /\ \E i \in DOMAIN sourceSteps :
           \E k, l \in DOMAIN sourceSteps[i].settings.input.text :
               /\ sourceSteps[i].settings.input.text[k] = Ref("step_2")
               /\ i \in DOMAIN copySteps
               /\ copySteps[i].settings.input.text[k].id \notin namesIn(prev)
               /\ sourceSteps[i].settings.input.text[l] \in {Txt("step_2"), Ref("step_20")}
               /\ copySteps[i].settings.input.text[l] = sourceSteps[i].settings.input.text[l]

\* the slots a step of a kind holds steps in, and the step in a slot
slotsOf(step) ==
    (CASE step.type = BRANCH -> {Slot(AT_ON_SUCCESS, 0), Slot(AT_ON_FAILURE, 0)}
       [] step.type = LOOP_ON_ITEMS -> {Slot(AT_FIRST_LOOP, 0)}
       [] step.type = ROUTER -> {Slot(AT_CHILDREN, i - 1) : i \in DOMAIN step.children}
       [] OTHER -> {})
    \cup {Slot(AT_NEXT, 0)}

inSlot(step, slot) ==
    CASE slot.slot = AT_ON_SUCCESS -> step.onSuccessAction
      [] slot.slot = AT_ON_FAILURE -> step.onFailureAction
      [] slot.slot = AT_FIRST_LOOP -> step.firstLoopAction
      [] slot.slot = AT_CHILDREN -> getAt(step.children, slot.index)
      [] slot.slot = AT_NEXT -> step.nextAction

\* the step a path of slots leads to from root
RECURSIVE stepAt(_, _)
stepAt(root, path) ==
    IF path = <<>> THEN Some(root)
    ELSE IF Head(path) \notin slotsOf(root) \/ inSlot(root, Head(path)) = Nil THEN Nil
    ELSE stepAt(inSlot(root, Head(path))[1], Tail(path))

\* the paths that lead from root to a step: those of the frontier and the
\* ones that extend them, found slot by slot
RECURSIVE reachablePaths(_, _)
reachablePaths(root, frontier) ==
    IF frontier = {} THEN {}
    ELSE frontier \cup
         reachablePaths(root,
             UNION {{Append(path, slot) :
                        slot \in {sl \in slotsOf(stepAt(root, path)[1]) :
                                     inSlot(stepAt(root, path)[1], sl) # Nil}} :
                    path \in frontier})

\* the place of a slot among the slots of its step: on success before on
\* failure, router children by index, next last
slotRank(slot) ==
    CASE slot.slot = AT_ON_SUCCESS -> 0
      [] slot.slot = AT_ON_FAILURE -> 1
      [] slot.slot = AT_FIRST_LOOP -> 0
      [] slot.slot = AT_CHILDREN -> slot.index
      [] slot.slot = AT_NEXT -> 1000

\* path p comes before path q: p leads to a step on the way to q, or where
\* they part p takes the earlier slot
comesBefore(p, q) ==
    \/ Len(p) < Len(q) /\ SubSeq(q, 1, Len(p)) = p
    \/ \E k \in 1..Min(Len(p), Len(q)) :
           /\ SubSeq(p, 1, k - 1) = SubSeq(q, 1, k - 1)
           /\ slotRank(p[k]) < slotRank(q[k])

\* C27: getAllSteps(root) lists every step reachable from root exactly once:
\* a step, then the on-success and the on-failure subtree of a branch, the
\* body of a loop, the subtrees of the non-empty children of a router by
\* index, and only then the steps reached through next.
C27_GetAllStepsPreOrder ==
    returned("getAllSteps") =>
        LET paths == reachablePaths(arg.root, {<<>>})
        IN  /\ Len(ret[1]) = Cardinality(paths)
            /\ \A p \in paths :
                   Some(ret[1][1 + Cardinality({q \in paths : comesBefore(q, p)})])
                       = stepAt(arg.root, p)

\* the steps of a flow with a router of two non-empty branches, one of them a
\* chain, have been listed
C27_Witness ==
    /\ returned("getAllSteps")
    /\ arg.root = Flow3.trigger
    /\ [i \in DOMAIN ret[1] |-> ret[1][i].name]
         = <<"trigger", "step_1", "step_2", "step_3", "step_4", "step_5">>

\* name is the prefix with the smallest number from 1 on that makes a name
\* outside used
firstUnused(name, used, stepPrefix) ==
    \E k \in 1..(Cardinality(used) + 1) :
        /\ name = numberedName(stepPrefix, k)
        /\ name \notin used
        /\ \A j \in 1..(k - 1) : numberedName(stepPrefix, j) \in used

\* the names of the steps that a path of slots leads to from the trigger
reachableNames(flowVersion) ==
    {stepAt(flowVersion.trigger, path)[1].name :
        path \in reachablePaths(flowVersion.trigger, {<<>>})}

\* C28: findUnusedName(names, prefix) returns prefix_K for the smallest K >= 1
\* such that prefix_K is not in names; findAvailableStepName(flow, prefix)
\* returns that name over the names of the steps reachable from the trigger,
\* which is therefore the name of no step of the flow.
C28_FirstUnusedName ==
    /\ returned("findUnusedName") =>
           firstUnused(ret[1], {arg.names[i] : i \in DOMAIN arg.names}, arg.stepPrefix)
    /\ returned("findAvailableStepName") =>
           /\ firstUnused(ret[1], reachableNames(arg.flowVersion), arg.stepPrefix)
           /\ ret[1] \notin reachableNames(arg.flowVersion)

\* a flow whose steps leave step_5 unused below step_7 gets step_5
C28_Witness ==
    /\ returned("findAvailableStepName")
    /\ arg.stepPrefix = "step"
    /\ {"step_4", "step_7"} \subseteq reachableNames(arg.flowVersion)
    /\ ret = Some("step_5")

\* the paths of slots from the trigger of the call to the target
targetPaths ==
    {path \in reachablePaths(arg.trigger, {<<>>}) :
        stepAt(arg.trigger, path)[1].name = arg.targetStepName}

\* the paths to the steps that contain the step at a path: the root, and the
\* steps that a child slot is followed from on the way
containing(path) ==
    {SubSeq(path, 1, n) : n \in {m \in 0..(Len(path) - 1) :
                                   m = 0 \/ path[m + 1].slot # AT_NEXT}}

\* the paths to the steps that only precede the step at a path on a chain
precedingOnChain(path) ==
    {SubSeq(path, 1, n) : n \in {m \in 1..(Len(path) - 1) : path[m + 1].slot = AT_NEXT}}

\* the entries of a path result are those of the steps at the paths, in the
\* order of the listing and tagged with their index in it
entriesOf(paths) ==
    LET listed == getAllSteps(arg.trigger)
        among(entry) == \E path \in paths : Some(entry.step) = stepAt(arg.trigger, path)
    IN  SelectSeq([i \in DOMAIN listed |-> StepWithIndex(listed[i], i - 1)], among)

\* C29: findPathToStep(trigger, target) returns the steps that structurally
\* contain the target (the composites whose child slots lead to it, and the
\* root), in the order of getAllSteps(trigger) and each tagged with its index
\* there; never the target itself nor a step that only precedes the target on
\* the same chain; and nothing when the target is not in the flow.
C29_PathHoldsAncestorsOnly ==
    returned("findPathToStep") =>
        /\ targetPaths = {} => ret[1] = <<>>
        /\ \A path \in targetPaths :
               /\ ret[1] = entriesOf(containing(path) \ {path})
               /\ \A i \in DOMAIN ret[1] : ret[1][i].step.name # arg.targetStepName
               /\ \A before \in precedingOnChain(path) :
                      \A i \in DOMAIN ret[1] : Some(ret[1][i].step) # stepAt(arg.trigger, before)

\* what the code returns: every step from which the target is reached, through
\* child slots or through next, except the target
FindPathHoldsEveryStepLeadingToTarget ==
    returned("findPathToStep") =>
        /\ targetPaths = {} => ret[1] = <<>>
        /\ \A path \in targetPaths :
               ret[1] = entriesOf({SubSeq(path, 1, n) : n \in 0..(Len(path) - 1)})

\* a path result holds a step that only precedes the target on its chain
FindPathHoldsChainPredecessor ==
    /\ returned("findPathToStep")
    /\ \E path \in targetPaths : \E before \in precedingOnChain(path) :
           \E i \in DOMAIN ret[1] : Some(ret[1][i].step) = stepAt(arg.trigger, before)

\* an ADD_ACTION call named a parent without child slots (a trigger, a piece
\* action or a code action) of the flow version; the request carries an
\* action under a name the flow version does not use
addedOnPlainParent ==
    /\ op.type = ADD_ACTION
    /\ distinctNames(prev)
    /\ isAction(op.request.action.type)
    /\ op.request.action.name \notin namesIn(prev)
    /\ addParent # Nil
    /\ addParent[1].type \in {TRIGGER_PIECE, TRIGGER_EMPTY, PIECE, CODE}

\* C30: an ADD_ACTION whose parent is a trigger, a piece action or a code
\* action inserts the new step after the parent whatever the location says,
\* the INSIDE_ locations included, and raises no error.
C30_AddOnPlainParentGoesAfter ==
    addedOnPlainParent =>
        /\ err = NO_ERROR
        /\ getStep(flow, op.request.parentStep)[1].nextAction = addedStep
        /\ addedStep # Nil
        /\ addedStep[1].nextAction = addParent[1].nextAction
        /\ Len(getAllSteps(flow.trigger)) = Len(getAllSteps(prev.trigger)) + 1
        /\ unlinked(Some(flow.trigger), op.request.action.name) = Some(prev.trigger)

\* a step has been added INSIDE_LOOP of a code or piece action that had a next
C30_Witness ==
    /\ addedOnPlainParent
    /\ isAction(addParent[1].type)
    /\ addParent[1].nextAction # Nil
    /\ op.request.stepLocationRelativeToParent = INSIDE_LOOP
    /\ err = NO_ERROR
    /\ getStep(flow, op.request.parentStep)[1].nextAction = addedStep

\* an ADD_ACTION, UPDATE_ACTION or UPDATE_TRIGGER call on a flow version with
\* distinct names created or rebuilt a step: an action added under an unused
\* name, an action that was updated, the trigger
createdOrRebuilt ==
    /\ distinctNames(prev)
    /\ err = NO_ERROR
    /\ \/ /\ op.type = ADD_ACTION
          /\ isAction(op.request.action.type)
          /\ op.request.action.name \notin namesIn(prev)
          /\ addParent # Nil
       \/ updatedAnAction
       \/ updatedTheTrigger

\* the name of that step, and the kind and the settings the request gave it
rebuiltName ==
    CASE op.type = ADD_ACTION -> op.request.action.name
      [] op.type = UPDATE_ACTION -> op.request.name
      [] op.type = UPDATE_TRIGGER -> prev.trigger.name

requestedStep == IF op.type = ADD_ACTION THEN op.request.action ELSE op.request

\* the piece version the upgrade leaves on a step of a kind with settings
upgradedVersionOf(type, settings) ==
    IF type \in {PIECE, TRIGGER_PIECE} THEN upgradedVersion(settings)
    ELSE settings.pieceVersion

\* every step but the one named keeps the piece version it had
otherVersionsKept(stepName) ==
    \A step \in Range(getAllSteps(flow.trigger)) :
        step.name # stepName =>
            /\ getStep(prev, step.name) # Nil
            /\ step.settings.pieceVersion = getStep(prev, step.name)[1].settings.pieceVersion

\* C31: after ADD_ACTION, UPDATE_ACTION or UPDATE_TRIGGER on a flow with
\* distinct names, the step the operation created or rebuilt (the added
\* action, the updated action, the trigger) carries the upgraded piece
\* version, and no other step has a changed piece version; for UPDATE_TRIGGER
\* whatever name the request carries.
C31_UpgradeAimedAtRebuiltStep ==
    createdOrRebuilt =>
        /\ getStep(flow, rebuiltName) # Nil
        /\ getStep(flow, rebuiltName)[1].settings.pieceVersion
             = upgradedVersionOf(requestedStep.type, requestedStep.settings)
        /\ otherVersionsKept(rebuiltName)

\* what the code does: the upgrade is aimed at the name the request carries,
\* which for UPDATE_TRIGGER need not be the name of the trigger
UpgradeAimedAtRequestName ==
    (createdOrRebuilt /\ (op.type = UPDATE_TRIGGER => op.request.name = prev.trigger.name)) =>
        /\ getStep(flow, rebuiltName) # Nil
        /\ getStep(flow, rebuiltName)[1].settings.pieceVersion
             = upgradedVersionOf(requestedStep.type, requestedStep.settings)
        /\ otherVersionsKept(rebuiltName)

\* an added piece action and an updated piece action have been upgraded
UpgradeOfAddedSeen ==
    /\ createdOrRebuilt
    /\ op.type = ADD_ACTION
    /\ requestedStep.type = PIECE
    /\ getStep(flow, rebuiltName)[1].settings.pieceVersion # requestedStep.settings.pieceVersion

UpgradeOfUpdatedSeen ==
    /\ createdOrRebuilt
    /\ op.type = UPDATE_ACTION
    /\ requestedStep.type = PIECE
    /\ getStep(flow, rebuiltName)[1].settings.pieceVersion # requestedStep.settings.pieceVersion

\* the moved step where the call left it
movedTo == getStep(flow, op.request.name)

\* a MOVE_ACTION call on a flow version with distinct names returned; its
\* source is a loop, a branch or a router, and its destination a step outside
\* the source with a location the destination has
movedAComposite ==
    /\ op.type = MOVE_ACTION
    /\ err = NO_ERROR
    /\ distinctNames(prev)
    /\ moveSource # Nil
    /\ moveSource[1].type \in {LOOP_ON_ITEMS, BRANCH, ROUTER}
    /\ moveDestination # Nil
    /\ moveDestination[1].name \notin
         {step.name : step \in Range(getAllSteps(withoutNext(moveSource[1])))}
    /\ validLocation(moveDestination[1],
                     [stepLocationRelativeToParent |-> op.request.stepLocationRelativeToNewParent,
                      branchIndex |-> op.request.branchIndex])

\* C32: after a successful MOVE_ACTION of a loop, branch or router S to a
\* valid location, a router branch included, the structural subtree of S has
\* the shape it had in the input, whatever is nested below S, and the steps
\* that followed S through next stay where S was.
C32_MoveKeepsSubtreeShape ==
    movedAComposite =>
        /\ movedTo # Nil
        /\ shapeOf(Some(withoutNext(movedTo[1]))) = shapeOf(Some(withoutNext(moveSource[1])))
        /\ shapeOf(unlinked(Some(flow.trigger), op.request.name))
             = shapeOf(unlinked(Some(prev.trigger), op.request.name))

\* what holds of every such move: the steps outside S keep their places
MoveKeepsTheOtherSteps ==
    movedAComposite =>
        /\ movedTo # Nil
        /\ shapeOf(unlinked(Some(flow.trigger), op.request.name))
             = shapeOf(unlinked(Some(prev.trigger), op.request.name))

\* a move whose source is a router keeps the shape of the router
MoveOfRouterKeepsShape ==
    (movedAComposite /\ moveSource[1].type = ROUTER) =>
        shapeOf(Some(withoutNext(movedTo[1]))) = shapeOf(Some(withoutNext(moveSource[1])))

\* a move whose source holds no router below it keeps the shape of the source
MoveWithoutNestedRouterKeepsShape ==
    (movedAComposite
        /\ \A step \in Range(getAllSteps(withoutNext(moveSource[1]))) :
               step.type = ROUTER => step = moveSource[1]) =>
        shapeOf(Some(withoutNext(movedTo[1]))) = shapeOf(Some(withoutNext(moveSource[1])))

\* C33: the state of a flow version is changed only by LOCK_FLOW, which sets
\* it to LOCKED; every other operation returns a flow version in the state of
\* its input, so a flow version that is LOCKED stays LOCKED over any sequence
\* of calls.
C33_OnlyLockChangesState ==
    [][/\ flow'.state # flow.state => op'.type = LOCK_FLOW
       /\ (op'.type = LOCK_FLOW /\ err' = NO_ERROR) => flow'.state = LOCKED
       /\ flow.state = LOCKED => flow'.state = LOCKED]_vars

\* a DRAFT flow version has been locked
C33_Witness ==
    /\ op.type = LOCK_FLOW
    /\ err = NO_ERROR
    /\ prev.state = DRAFT
    /\ flow.state = LOCKED

\* an operation that is not LOCK_FLOW has changed the steps of a LOCKED flow
\* version
LockedFlowChangedSeen ==
    /\ op.type \notin {LOCK_FLOW, NO_OP}
    /\ err = NO_ERROR
    /\ prev.state = LOCKED
    /\ flow.trigger # prev.trigger
    /\ flow.state = LOCKED

\* an ADD_ACTION call named a parent the flow version does not hold (and
\* carried an action under an unused name), or a DELETE_ACTION or
\* UPDATE_ACTION call named no action of the flow version: a name it does not
\* hold, or the name of its trigger
namedNoStep ==
    /\ distinctNames(prev)
    /\ \/ /\ op.type = ADD_ACTION
          /\ isAction(op.request.action.type)
          /\ op.request.parentStep \notin namesIn(prev)
          /\ op.request.action.name \notin namesIn(prev)
       \/ /\ op.type = DELETE_ACTION
          /\ op.request.name \notin (namesIn(prev) \ {prev.trigger.name})
       \/ /\ op.type = UPDATE_ACTION
          /\ isAction(op.request.type)
          /\ op.request.name \notin (namesIn(prev) \ {prev.trigger.name})

\* C34: ADD_ACTION whose parent is not a step of the flow, and DELETE_ACTION
\* or UPDATE_ACTION whose name is not an action of the flow (absent, or the
\* name of the trigger), raise no error and return a flow whose trigger tree
\* equals the input's; only the valid flag of the flow is recomputed.
C34_NamingNoStepChangesNothing ==
    namedNoStep =>
        /\ err = NO_ERROR
        /\ flow.trigger = prev.trigger
        /\ flow = [prev EXCEPT !.valid = isValid(prev)]

\* what holds of these calls: no error, and every step in its place with its
\* own fields, except that UPDATE_ACTION under the name of the trigger leaves
\* the trigger with the upgraded piece version
NamingNoStepKeepsUpToUpgrade ==
    namedNoStep =>
        /\ err = NO_ERROR
        /\ flow.trigger.nextAction = prev.trigger.nextAction
        /\ asideFromVersion(flow.trigger) = asideFromVersion(prev.trigger)
        /\ (op.type = UPDATE_ACTION /\ op.request.name = prev.trigger.name)
             \/ flow = [prev EXCEPT !.valid = isValid(prev)]

\* an UPDATE_ACTION under the name of the trigger has changed the trigger
UpdateActionOnTriggerSeen ==
    /\ namedNoStep
    /\ op.type = UPDATE_ACTION
    /\ op.request.name = prev.trigger.name
    /\ err = NO_ERROR
    /\ flow.trigger # prev.trigger

\* the steps below a step, through its child slots
nestedUnder(step) == Range(Tail(getAllSteps(withoutNext(step))))

\* a MOVE_ACTION call on a flow version with distinct names returned; its
\* destination is a step outside the source
movedAStep ==
    /\ op.type = MOVE_ACTION
    /\ err = NO_ERROR
    /\ distinctNames(prev)
    /\ moveSource # Nil
    /\ moveDestination # Nil
    /\ moveDestination[1].name # moveSource[1].name
    /\ moveDestination[1] \notin nestedUnder(moveSource[1])

\* C35: MOVE_ACTION changes only positions: every step of the input, the
\* moved step and the steps nested under it included, has in the result the
\* settings (the piece version in particular), the display name and the name
\* it had.
C35_MoveChangesOnlyPositions ==
    movedAStep =>
        \A step \in Range(getAllSteps(prev.trigger)) :
            /\ getStep(flow, step.name) # Nil
            /\ getStep(flow, step.name)[1].settings = step.settings
            /\ getStep(flow, step.name)[1].displayName = step.displayName

\* what holds of every move: every step keeps its name, its display name and
\* its settings, except that a piece step nested under a moved loop or branch
\* comes back with the upgraded piece version
MoveKeepsFieldsUpToUpgrade ==
    movedAStep =>
        \A step \in Range(getAllSteps(prev.trigger)) :
            /\ getStep(flow, step.name) # Nil
            /\ getStep(flow, step.name)[1].displayName = step.displayName
            /\ getStep(flow, step.name)[1].settings =
                 IF step \in nestedUnder(moveSource[1])
                      /\ moveSource[1].type \in {LOOP_ON_ITEMS, BRANCH}
                 THEN [step.settings EXCEPT
                          !.pieceVersion = upgradedVersionOf(step.type, step.settings)]
                 ELSE step.settings

\* a piece step nested under a moved branch has come back with another piece
\* version
MoveUpgradedNestedSeen ==
    /\ movedAStep
    /\ \E step \in nestedUnder(moveSource[1]) :
           getStep(flow, step.name)[1].settings.pieceVersion # step.settings.pieceVersion

====
